---- MODULE Spec2Model ----
(***************************************************************************)
(* Controller synthesis for timed automata against MTL specifications:     *)
(* the MTL -> ATA translation, the canonical words of the region           *)
(* abstraction, and the search tree with batch and incremental labeling.   *)
(***************************************************************************)
EXTENDS Integers, Sequences, FiniteSets, TLC

(***************************************************************************)
(* Time points.  A clock value is ip + fr/den, where den is the same for   *)
(* all clocks of one configuration, so that only ip and the numerator fr   *)
(* are kept: fr = 0 is an integral value, and two values have the same     *)
(* fractional part iff their fr are equal.                                 *)
(***************************************************************************)
Time(ip, fr) == [ip |-> ip, fr |-> fr]

TimeZero == Time(0, 0)

\* A clock constraint (op, c) over a clock value v: v op c.
ClockConstraint(cmp, c) == [cmp |-> cmp, c |-> c]

is_satisfied(constraint, v) ==
    LET c == constraint.c
    IN  CASE constraint.cmp = "less" -> v.ip < c
          [] constraint.cmp = "less_equal" -> v.ip < c \/ (v.ip = c /\ v.fr = 0)
          [] constraint.cmp = "equal_to" -> v.ip = c /\ v.fr = 0
          [] constraint.cmp = "not_equal_to" -> ~(v.ip = c /\ v.fr = 0)
          [] constraint.cmp = "greater_equal" -> v.ip >= c
          [] constraint.cmp = "greater" -> v.ip > c \/ (v.ip = c /\ v.fr > 0)

(***************************************************************************)
(* MTL formulas                                                            *)
(***************************************************************************)
AP(a) == [op |-> "AP", ap |-> a]

MTLTrue == [op |-> "TRUE"]

MTLFalse == [op |-> "FALSE"]

MTLNeg(f) == [op |-> "LNEG", l |-> f]

MTLAnd(f, g) == [op |-> "LAND", l |-> f, r |-> g]

MTLOr(f, g) == [op |-> "LOR", l |-> f, r |-> g]

\* A time interval: each bound is WEAK, STRICT or INFTY (absent).
TimeInterval(lower, lowerBoundType, upper, upperBoundType) ==
    [lower |-> lower, lowerBoundType |-> lowerBoundType,
     upper |-> upper, upperBoundType |-> upperBoundType]

Unbounded == TimeInterval(0, "INFTY", 0, "INFTY")

MTLUntil(f, g, I) == [op |-> "LUNTIL", l |-> f, r |-> g, I |-> I]

MTLDualUntil(f, g, I) == [op |-> "LDUNTIL", l |-> f, r |-> g, I |-> I]

RECURSIVE to_positive_normal_form(_)
to_positive_normal_form(f) ==
    CASE f.op \in {"TRUE", "FALSE", "AP"} -> f
      [] f.op = "LAND" ->
            MTLAnd(to_positive_normal_form(f.l), to_positive_normal_form(f.r))
      [] f.op = "LOR" ->
            MTLOr(to_positive_normal_form(f.l), to_positive_normal_form(f.r))
      [] f.op = "LUNTIL" ->
            MTLUntil(to_positive_normal_form(f.l), to_positive_normal_form(f.r), f.I)
      [] f.op = "LDUNTIL" ->
            MTLDualUntil(to_positive_normal_form(f.l), to_positive_normal_form(f.r), f.I)
      [] f.op = "LNEG" ->
            LET g == f.l
            IN  CASE g.op = "TRUE" -> MTLFalse
                  [] g.op = "FALSE" -> MTLTrue
                  [] g.op = "AP" -> f
                  [] g.op = "LNEG" -> to_positive_normal_form(g.l)
                  [] g.op = "LAND" ->
                        MTLOr(to_positive_normal_form(MTLNeg(g.l)),
                              to_positive_normal_form(MTLNeg(g.r)))
                  [] g.op = "LOR" ->
                        MTLAnd(to_positive_normal_form(MTLNeg(g.l)),
                               to_positive_normal_form(MTLNeg(g.r)))
                  [] g.op = "LUNTIL" ->
                        MTLDualUntil(to_positive_normal_form(MTLNeg(g.l)),
                                     to_positive_normal_form(MTLNeg(g.r)), g.I)
                  [] g.op = "LDUNTIL" ->
                        MTLUntil(to_positive_normal_form(MTLNeg(g.l)),
                                 to_positive_normal_form(MTLNeg(g.r)), g.I)

RECURSIVE get_subformulas_of_type(_, _)
get_subformulas_of_type(f, op) ==
    (IF f.op = op THEN {f} ELSE {})
    \cup (IF f.op \in {"LAND", "LOR", "LUNTIL", "LDUNTIL"}
          THEN get_subformulas_of_type(f.l, op) \cup get_subformulas_of_type(f.r, op)
          ELSE IF f.op = "LNEG" THEN get_subformulas_of_type(f.l, op) ELSE {})

get_alphabet(f) == {g.ap : g \in get_subformulas_of_type(f, "AP")}

(***************************************************************************)
(* ATA formulas: positive boolean combinations of locations, clock         *)
(* constraints and clock resets.                                           *)
(***************************************************************************)
TrueFormula == [f |-> "TRUE"]

FalseFormula == [f |-> "FALSE"]

LocationFormula(l) == [f |-> "LOC", location |-> l]

ClockConstraintFormula(cmp, c) == [f |-> "CC", constraint |-> ClockConstraint(cmp, c)]

ResetClockFormula(sub) == [f |-> "RESET", sub |-> sub]

create_conjunction(l, r) == [f |-> "AND", l |-> l, r |-> r]

create_disjunction(l, r) == [f |-> "OR", l |-> l, r |-> r]

\* The formula a transition gets when init meets a formula that is not in
\* positive normal form (the std::logic_error of init).
NotInPNF == [f |-> "THROW_NOT_PNF"]

\* An active ATA location with the value of its clock.
State(location, v) == [location |-> location, clock_valuation |-> v]

DiscardNonMinimal(models) == {m \in models : ~\E n \in models : n # m /\ n \subseteq m}

RECURSIVE get_minimal_models(_, _)
get_minimal_models(formula, v) ==
    CASE formula.f = "TRUE" -> {{}}
      [] formula.f = "FALSE" -> {}
      [] formula.f = "LOC" -> {{State(formula.location, v)}}
      [] formula.f = "CC" -> IF is_satisfied(formula.constraint, v) THEN {{}} ELSE {}
      [] formula.f = "RESET" -> get_minimal_models(formula.sub, TimeZero)
      [] formula.f = "AND" ->
            DiscardNonMinimal({m1 \cup m2 : m1 \in get_minimal_models(formula.l, v),
                                            m2 \in get_minimal_models(formula.r, v)})
      [] formula.f = "OR" ->
            DiscardNonMinimal(get_minimal_models(formula.l, v)
                              \cup get_minimal_models(formula.r, v))
      [] OTHER -> {}

(***************************************************************************)
(* The translation of an MTL formula into an ATA.                          *)
(***************************************************************************)
get_closure(formula) ==
    get_subformulas_of_type(formula, "LUNTIL") \cup get_subformulas_of_type(formula, "LDUNTIL")

create_contains(duration) ==
    LET lowerBound == IF duration.lowerBoundType = "INFTY" THEN TrueFormula
                      ELSE IF duration.lowerBoundType = "WEAK"
                           THEN ClockConstraintFormula("greater_equal", duration.lower)
                           ELSE ClockConstraintFormula("greater", duration.lower)
        upperBound == IF duration.upperBoundType = "INFTY" THEN TrueFormula
                      ELSE IF duration.upperBoundType = "WEAK"
                           THEN ClockConstraintFormula("less_equal", duration.upper)
                           ELSE ClockConstraintFormula("less", duration.upper)
    IN  create_conjunction(lowerBound, upperBound)

\* create_negated_contains with the comparators turned around but as strict
\* as those of create_contains.
create_negated_contains_same_strictness(duration) ==
    LET lowerBound == IF duration.lowerBoundType = "INFTY" THEN FalseFormula
                      ELSE IF duration.lowerBoundType = "WEAK"
                           THEN ClockConstraintFormula("less_equal", duration.lower)
                           ELSE ClockConstraintFormula("less", duration.lower)
        upperBound == IF duration.upperBoundType = "INFTY" THEN FalseFormula
                      ELSE IF duration.upperBoundType = "WEAK"
                           THEN ClockConstraintFormula("greater_equal", duration.upper)
                           ELSE ClockConstraintFormula("greater", duration.upper)
    IN  create_disjunction(lowerBound, upperBound)

create_negated_contains(duration) ==
    LET lowerBound == IF duration.lowerBoundType = "INFTY" THEN FalseFormula
                      ELSE IF duration.lowerBoundType = "WEAK"
                           THEN ClockConstraintFormula("less", duration.lower)
                           ELSE ClockConstraintFormula("less_equal", duration.lower)
        upperBound == IF duration.upperBoundType = "INFTY" THEN FalseFormula
                      ELSE IF duration.upperBoundType = "WEAK"
                           THEN ClockConstraintFormula("greater", duration.upper)
                           ELSE ClockConstraintFormula("greater_equal", duration.upper)
    IN  create_disjunction(lowerBound, upperBound)

\* init without the parameter first: every until and dual until is activated
\* with a clock reset, also from l0.
RECURSIVE init_always_reset(_, _, _)
init_always_reset(formula, ap, first) ==
    CASE formula.op = "TRUE" -> TrueFormula
      [] formula.op = "FALSE" -> FalseFormula
      [] formula.op \in {"LUNTIL", "LDUNTIL"} -> ResetClockFormula(LocationFormula(formula))
      [] formula.op = "LAND" ->
            create_conjunction(init_always_reset(formula.l, ap, first),
                               init_always_reset(formula.r, ap, first))
      [] formula.op = "LOR" ->
            create_disjunction(init_always_reset(formula.l, ap, first),
                               init_always_reset(formula.r, ap, first))
      [] formula.op = "AP" -> IF formula = AP(ap) THEN TrueFormula ELSE FalseFormula
      [] formula.op = "LNEG" ->
            CASE formula.l.op = "TRUE" -> FalseFormula
              [] formula.l.op = "FALSE" -> TrueFormula
              [] formula.l.op = "AP" ->
                    IF formula.l = AP(ap) THEN FalseFormula ELSE TrueFormula
              [] OTHER -> NotInPNF

RECURSIVE init(_, _, _)
init(formula, ap, first) ==
    CASE formula.op = "TRUE" -> TrueFormula
      [] formula.op = "FALSE" -> FalseFormula
      [] formula.op \in {"LUNTIL", "LDUNTIL"} ->
            IF first THEN LocationFormula(formula)
            ELSE ResetClockFormula(LocationFormula(formula))
      [] formula.op = "LAND" ->
            create_conjunction(init(formula.l, ap, first), init(formula.r, ap, first))
      [] formula.op = "LOR" ->
            create_disjunction(init(formula.l, ap, first), init(formula.r, ap, first))
      [] formula.op = "AP" -> IF formula = AP(ap) THEN TrueFormula ELSE FalseFormula
      [] formula.op = "LNEG" ->
            CASE formula.l.op = "TRUE" -> FalseFormula
              [] formula.l.op = "FALSE" -> TrueFormula
              [] formula.l.op = "AP" ->
                    IF formula.l = AP(ap) THEN FalseFormula ELSE TrueFormula
              [] OTHER -> NotInPNF

Transition(source, symbol, formula) ==
    [source |-> source, symbol |-> symbol, formula |-> formula]

\* translate with the whole closure accepting, with the test for l0 made on
\* the alphabet as it was passed in, or with the formula taken as it was
\* passed in.
translate_variant(input_formula, alphabet_in, accepting_closure, test_given_alphabet, as_passed) ==
    LET formula == IF as_passed THEN input_formula
                   ELSE to_positive_normal_form(input_formula)
        alphabet == IF alphabet_in = {} THEN get_alphabet(formula) ELSE alphabet_in
        untils == get_subformulas_of_type(formula, "LUNTIL")
        dual_untils == get_subformulas_of_type(formula, "LDUNTIL")
        transitions ==
            {Transition(AP("l0"), symbol, init(formula, symbol, TRUE)) : symbol \in alphabet}
            \cup {Transition(until, symbol,
                     create_disjunction(
                        create_conjunction(init(until.r, symbol, FALSE),
                                           create_contains(until.I)),
                        create_conjunction(init(until.l, symbol, FALSE),
                                           LocationFormula(until)))) :
                     until \in untils, symbol \in alphabet}
            \cup {Transition(dual_until, symbol,
                     create_conjunction(
                        create_disjunction(init(dual_until.r, symbol, FALSE),
                                           create_negated_contains(dual_until.I)),
                        create_disjunction(init(dual_until.l, symbol, FALSE),
                                           LocationFormula(dual_until)))) :
                     dual_until \in dual_untils, symbol \in alphabet}
    IN  IF "l0" \in (IF test_given_alphabet THEN alphabet_in ELSE alphabet)
        THEN [error |-> "invalid_argument"]
        ELSE [error |-> "none",
              alphabet |-> alphabet,
              initial_location |-> AP("l0"),
              final_locations |-> IF accepting_closure THEN get_closure(formula)
                                  ELSE dual_untils,
              transitions |-> transitions,
              sink_location |-> AP("sink")]

translate_accepting_closure(input_formula, alphabet_in) ==
    translate_variant(input_formula, alphabet_in, TRUE, FALSE, FALSE)

translate_test_given_alphabet(input_formula, alphabet_in) ==
    translate_variant(input_formula, alphabet_in, FALSE, TRUE, FALSE)

translate_formula_as_passed(input_formula, alphabet_in) ==
    translate_variant(input_formula, alphabet_in, FALSE, FALSE, TRUE)

translate(input_formula, alphabet_in) ==
    LET formula == to_positive_normal_form(input_formula)
        alphabet == IF alphabet_in = {} THEN get_alphabet(formula) ELSE alphabet_in
        untils == get_subformulas_of_type(formula, "LUNTIL")
        dual_untils == get_subformulas_of_type(formula, "LDUNTIL")
        transitions ==
            {Transition(AP("l0"), symbol, init(formula, symbol, TRUE)) : symbol \in alphabet}
            \cup {Transition(until, symbol,
                     create_disjunction(
                        create_conjunction(init(until.r, symbol, FALSE),
                                           create_contains(until.I)),
                        create_conjunction(init(until.l, symbol, FALSE),
                                           LocationFormula(until)))) :
                     until \in untils, symbol \in alphabet}
            \cup {Transition(dual_until, symbol,
                     create_conjunction(
                        create_disjunction(init(dual_until.r, symbol, FALSE),
                                           create_negated_contains(dual_until.I)),
                        create_disjunction(init(dual_until.l, symbol, FALSE),
                                           LocationFormula(dual_until)))) :
                     dual_until \in dual_untils, symbol \in alphabet}
    IN  IF "l0" \in alphabet
        THEN [error |-> "invalid_argument"]
        ELSE [error |-> "none",
              alphabet |-> alphabet,
              initial_location |-> AP("l0"),
              final_locations |-> dual_untils,
              transitions |-> transitions,
              sink_location |-> AP("sink")]

(***************************************************************************)
(* The alternating timed automaton: symbol steps and acceptance.           *)
(***************************************************************************)
ata_initial_configuration(ata) == {State(ata.initial_location, TimeZero)}

\* The minimal models of the transition of one state; a state without a
\* transition for the symbol, or whose transition formula has no model,
\* goes to the sink location.
ata_state_models(ata, state, symbol) ==
    LET ts == {t \in ata.transitions : t.source = state.location /\ t.symbol = symbol}
        sink == {{State(ata.sink_location, TimeZero)}}
    IN  IF ts = {} THEN sink
        ELSE LET new_states == get_minimal_models((CHOOSE t \in ts : TRUE).formula,
                                                  state.clock_valuation)
             IN  IF new_states = {} THEN sink ELSE new_states

RECURSIVE ata_cartesian_product(_, _, _)
ata_cartesian_product(ata, states, symbol) ==
    IF states = {} THEN {{}}
    ELSE LET s == CHOOSE x \in states : TRUE
         IN  {m \cup rest : m \in ata_state_models(ata, s, symbol),
                            rest \in ata_cartesian_product(ata, states \ {s}, symbol)}

ata_make_symbol_step(ata, start_states, symbol) ==
    ata_cartesian_product(ata, start_states, symbol)

\* A configuration is accepting iff it has an active location and every
\* active location is accepting.
ata_is_accepting_nonempty_configuration(ata, configuration) ==
    /\ configuration # {}
    /\ \A s \in configuration : s.location \in ata.final_locations

\* A configuration is accepting iff every active location is accepting.
ata_is_accepting_configuration(ata, configuration) ==
    \A s \in configuration : s.location \in ata.final_locations

(***************************************************************************)
(* The timed automaton of the plant.                                       *)
(***************************************************************************)
TATransition(source, symbol, target, clock_constraints, clock_resets) ==
    [source |-> source, symbol |-> symbol, target |-> target,
     clock_constraints |-> clock_constraints, clock_resets |-> clock_resets]

TimedAutomaton(alphabet, initial_location, final_locations, clocks, transitions) ==
    [alphabet |-> alphabet, initial_location |-> initial_location,
     final_locations |-> final_locations, clocks |-> clocks, transitions |-> transitions]

TAConfiguration(location, clock_valuations) ==
    [location |-> location, clock_valuations |-> clock_valuations]

ta_initial_configuration(ta) ==
    TAConfiguration(ta.initial_location, [c \in ta.clocks |-> TimeZero])

ta_is_enabled(transition, symbol, configuration) ==
    /\ transition.source = configuration.location
    /\ transition.symbol = symbol
    /\ \A g \in transition.clock_constraints :
          is_satisfied(g.constraint, configuration.clock_valuations[g.clock])

ta_make_symbol_step(ta, configuration, symbol) ==
    {TAConfiguration(t.target,
                     [c \in DOMAIN configuration.clock_valuations |->
                         IF c \in t.clock_resets THEN TimeZero
                         ELSE configuration.clock_valuations[c]]) :
        t \in {u \in ta.transitions : ta_is_enabled(u, symbol, configuration)}}

ta_is_accepting_configuration(ta, configuration) ==
    configuration.location \in ta.final_locations

(***************************************************************************)
(* Regions and canonical words.                                            *)
(***************************************************************************)
\* The region index without the class of the values beyond K.
getRegionIndex_unbounded(v, K) == IF v.fr = 0 THEN 2 * v.ip ELSE 2 * v.ip + 1

\* The region index of a clock value for the maximal constant K.
getRegionIndex(v, K) ==
    IF v.ip > K \/ (v.ip = K /\ v.fr > 0) THEN 2 * K + 1
    ELSE IF v.fr = 0 THEN 2 * v.ip ELSE 2 * v.ip + 1

TARegionState(location, clock, region_index) ==
    [location |-> location, clock |-> clock, region_index |-> region_index]

ATARegionState(formula, region_index) ==
    [formula |-> formula, region_index |-> region_index]

is_ta_region_state(symbol) == "clock" \in DOMAIN symbol

RECURSIVE sorted_seq(_)
sorted_seq(S) ==
    IF S = {} THEN <<>>
    ELSE LET m == CHOOSE x \in S : \A y \in S : x <= y
         IN  <<m>> \o sorted_seq(S \ {m})

\* Partition the states of both configurations by the fractional part of
\* their clock, order the partitions by fractional part, and replace every
\* clock value by its region index.
get_canonical_word(ta_configuration, ata_configuration, K) ==
    LET cv == ta_configuration.clock_valuations
        fractional_parts == sorted_seq({cv[c].fr : c \in DOMAIN cv}
                                       \cup {s.clock_valuation.fr : s \in ata_configuration})
    IN  [i \in 1..Len(fractional_parts) |->
            {TARegionState(ta_configuration.location, c, getRegionIndex(cv[c], K)) :
                c \in {d \in DOMAIN cv : cv[d].fr = fractional_parts[i]}}
            \cup {ATARegionState(s.location, getRegionIndex(s.clock_valuation, K)) :
                    s \in {u \in ata_configuration :
                              u.clock_valuation.fr = fractional_parts[i]}}]

\* The symbols of a word with the index of their partition.
word_symbols(word) == UNION {{<<i, symbol>> : symbol \in word[i]} : i \in DOMAIN word}

\* A concrete configuration in the regions of the word: the i-th of n
\* partitions gets the fractional part i/(n+1), even regions get 0.
candidate_time(region_index, i) ==
    Time(region_index \div 2, IF region_index % 2 = 0 THEN 0 ELSE i)

get_candidate(word) ==
    LET symbols == word_symbols(word)
        ta_symbols == {p \in symbols : is_ta_region_state(p[2])}
        ata_symbols == symbols \ ta_symbols
        clocks == {p[2].clock : p \in ta_symbols}
        location == IF ta_symbols = {} THEN "none"
                    ELSE (CHOOSE p \in ta_symbols : TRUE)[2].location
    IN  <<TAConfiguration(location,
             [c \in clocks |->
                 LET p == CHOOSE q \in ta_symbols : q[2].clock = c
                 IN  candidate_time(p[2].region_index, p[1])]),
          {State(p[2].formula, candidate_time(p[2].region_index, p[1])) : p \in ata_symbols}>>

\* The projection of a word to the plant: the ATA states are dropped.
reg_a(word) ==
    SelectSeq([i \in DOMAIN word |-> {s \in word[i] : is_ta_region_state(s)}],
              LAMBDA partition : partition # {})

\* Increment the region indexes of a partition, never beyond the maximum.
increment_region_indexes(configurations, max_region_index) ==
    {[s EXCEPT !.region_index = IF @ < max_region_index THEN @ + 1 ELSE @] :
        s \in configurations}

is_maxed(partition, max_region_index) ==
    \A s \in partition : s.region_index = max_region_index

\* The incremented partition kept whole.
partition_front_whole(partition) == partition

\* The symbols of an incremented partition that stay together: when some
\* symbols reached an even region, the symbols left in the last (odd) region
\* no longer belong to the partition.
partition_front(partition) ==
    IF \E s \in partition : s.region_index % 2 = 0
    THEN {s \in partition : s.region_index % 2 = 0}
    ELSE partition

nonempty_partitions(word) == SelectSeq(word, LAMBDA p : p # {})

\* The word that follows the given word when time passes: the partition with
\* the greatest fractional part that is not yet in the last region moves to
\* the next region and to the front, and a first partition with an even
\* region index leaves its integral value.
get_time_successor(word, K) ==
    LET max_region_index == 2 * K + 1
        nonmaxed == {i \in DOMAIN word : ~is_maxed(word[i], max_region_index)}
    IN  IF nonmaxed = {} THEN word
        ELSE LET last == CHOOSE i \in nonmaxed : \A j \in nonmaxed : j <= i
                 first_is_even == \E s \in word[1] : s.region_index % 2 = 0
                 incremented == increment_region_indexes(word[last], max_region_index)
                 front == partition_front(incremented)
                 maxed == incremented \ front
             IN  nonempty_partitions(
                    IF last = 1
                    THEN <<front>> \o SubSeq(word, 2, Len(word)) \o <<maxed>>
                    ELSE <<front,
                           IF first_is_even
                           THEN increment_region_indexes(word[1], max_region_index)
                           ELSE word[1]>>
                         \o SubSeq(word, 2, last - 1)
                         \o SubSeq(word, last + 1, Len(word))
                         \o <<maxed>>)

\* All time successors of a word with their region increment, the word itself
\* first (increment 0), up to the word that time does not change any more.
RECURSIVE time_successors_from(_, _, _)
time_successors_from(word, increment, K) ==
    LET next == get_time_successor(word, K)
    IN  IF next = word THEN <<<<increment, word>>>>
        ELSE <<<<increment, word>>>> \o time_successors_from(next, increment + 1, K)

get_time_successors(canonical_word, K) == time_successors_from(canonical_word, 0, K)

\* The canonical words reached from a concrete configuration by one symbol.
get_next_canonical_words(ta, ata, ab_configuration, symbol, K) ==
    {get_canonical_word(ta_successor, ata_successor, K) :
        ta_successor \in ta_make_symbol_step(ta, ab_configuration[1], symbol),
        ata_successor \in ata_make_symbol_step(ata, ab_configuration[2], symbol)}

\* w1 is monotonically dominated by w2: the partitions of w1 are contained,
\* in order, in partitions of w2.
RECURSIVE is_subword(_, _)
is_subword(w1, w2) ==
    IF w1 = <<>> THEN TRUE
    ELSE IF w2 = <<>> THEN FALSE
    ELSE IF Head(w1) \subseteq Head(w2) THEN is_subword(Tail(w1), Tail(w2))
    ELSE is_subword(w1, Tail(w2))

is_monotonically_dominated(first, second) ==
    \A second_word \in second : \E first_word \in first : is_subword(first_word, second_word)

(***************************************************************************)
(* The order of canonical words (std::map keeps the reg_a classes of a     *)
(* node ordered, and the children are created in that order).              *)
(***************************************************************************)
RECURSIVE seq_less(_, _)
seq_less(a, b) ==
    IF b = <<>> THEN FALSE
    ELSE IF a = <<>> THEN TRUE
    ELSE IF Head(a) # Head(b) THEN Head(a) < Head(b)
    ELSE seq_less(Tail(a), Tail(b))

rank_of(order, x) == CHOOSE i \in DOMAIN order : order[i] = x

RECURSIVE sort_keys(_)
sort_keys(S) ==
    IF S = {} THEN <<>>
    ELSE LET m == CHOOSE x \in S : \A y \in S : y = x \/ seq_less(x, y)
         IN  <<m>> \o sort_keys(S \ {m})

RECURSIVE concat(_)
concat(seqs) == IF seqs = <<>> THEN <<>> ELSE Head(seqs) \o concat(Tail(seqs))

symbol_key(plant, s) ==
    <<rank_of(plant.location_order, s.location), rank_of(plant.clock_order, s.clock),
      s.region_index + 1>>

partition_key(plant, partition) ==
    concat(sort_keys({symbol_key(plant, s) : s \in partition})) \o <<0>>

\* The key of a word of plant region states (a reg_a class).
word_key(plant, word) == concat([i \in DOMAIN word |-> partition_key(plant, word[i])])

\* The words of a set in the order of their keys.
sort_by_key(plant, S) ==
    LET keys == sort_keys({word_key(plant, w) : w \in S})
    IN  [i \in DOMAIN keys |-> CHOOSE w \in S : word_key(plant, w) = keys[i]]

(***************************************************************************)
(* The search tree.  A node is named by its path from the root: the root   *)
(* is <<>>, and the i-th child of node p is Append(p, i).                  *)
(***************************************************************************)
Node(words, incoming_actions) ==
    [words |-> words,
     incoming_actions |-> incoming_actions,
     state |-> "UNKNOWN",
     label |-> "UNLABELED",
     label_reason |-> "UNKNOWN",
     is_expanded |-> FALSE]

Root == <<>>

parent_of(node) == SubSeq(node, 1, Len(node) - 1)

\* node->children, in order.
children_of(t, node) ==
    LET n == Cardinality({c \in DOMAIN t : Len(c) = Len(node) + 1 /\ parent_of(c) = node})
    IN  [i \in 1..n |-> Append(node, i)]

\* The nodes of the subtree below a node, the node included.
subtree_of(t, node) ==
    {c \in DOMAIN t : Len(c) >= Len(node) /\ SubSeq(c, 1, Len(node)) = node}

min_of(S, default) == IF S = {} THEN default ELSE CHOOSE x \in S : \A y \in S : x <= y

\* std::numeric_limits<RegionIndex>::max(), as a value above every step.
RegionIndexMax == 1000000

\* The label is set and, with cancel_children, every node below is canceled,
\* whatever its label.
set_label_cancel_all(t, node, new_label, cancel_children) ==
    IF t[node].label # "UNLABELED" THEN t
    ELSE [c \in DOMAIN t |->
            IF c = node THEN [t[c] EXCEPT !.label = new_label]
            ELSE IF cancel_children /\ c \in subtree_of(t, node)
            THEN [t[c] EXCEPT !.label = "CANCELED"]
            ELSE t[c]]

\* The label is set and, with cancel_children, the unexpanded and unlabeled
\* nodes of the whole tree are canceled, not only those below the node.
set_label_cancel_everywhere(t, node, new_label, cancel_children) ==
    IF t[node].label # "UNLABELED" THEN t
    ELSE [c \in DOMAIN t |->
            IF c = node THEN [t[c] EXCEPT !.label = new_label]
            ELSE IF cancel_children /\ ~t[c].is_expanded /\ t[c].label = "UNLABELED"
            THEN [t[c] EXCEPT !.label = "CANCELED"]
            ELSE t[c]]

\* Set the label of a node that is not labeled yet; with cancel_children the
\* nodes below it that are still unexpanded and unlabeled are canceled.
set_label(t, node, new_label, cancel_children) ==
    IF t[node].label # "UNLABELED" THEN t
    ELSE LET canceled ==
                IF cancel_children
                THEN {c \in subtree_of(t, node) \ {node} :
                         ~t[c].is_expanded /\ t[c].label = "UNLABELED"}
                ELSE {}
         IN  IF canceled = {} THEN [t EXCEPT ![node].label = new_label]
             ELSE [c \in DOMAIN t |->
                     IF c = node THEN [t[c] EXCEPT !.label = new_label]
                     ELSE IF c \in canceled THEN [t[c] EXCEPT !.label = "CANCELED"]
                     ELSE t[c]]

\* The least step of an incoming action among `actions` of a child of the
\* node that has the given label.
first_step(t, node, child_label, actions) ==
    min_of({a[1] : a \in {b \in UNION {t[c].incoming_actions :
                                         c \in {d \in DOMAIN t : Len(d) = Len(node) + 1
                                                                  /\ parent_of(d) = node
                                                                  /\ t[d].label = child_label}} :
                             b[2] \in actions}},
           RegionIndexMax)

\* The label the labeled children of a node determine, if they determine one.
propagate_decision(t, node, controller_actions, environment_actions) ==
    LET first_good_controller_step == first_step(t, node, "TOP", controller_actions)
        first_non_bad_controller_step == first_step(t, node, "UNLABELED", controller_actions)
        first_non_good_environment_step ==
            first_step(t, node, "UNLABELED", environment_actions)
        first_bad_environment_step == first_step(t, node, "BOTTOM", environment_actions)
    IN  IF /\ first_non_good_environment_step = RegionIndexMax
           /\ first_bad_environment_step = RegionIndexMax
        THEN [label |-> "TOP", label_reason |-> "NO_BAD_ENV_ACTION"]
        ELSE IF /\ first_good_controller_step < first_non_good_environment_step
                /\ first_good_controller_step < first_bad_environment_step
        THEN [label |-> "TOP", label_reason |-> "GOOD_CONTROLLER_ACTION_FIRST"]
        ELSE IF /\ first_bad_environment_step < RegionIndexMax
                /\ first_bad_environment_step <= first_good_controller_step
                /\ first_bad_environment_step <= first_non_bad_controller_step
        THEN [label |-> "BOTTOM", label_reason |-> "BAD_ENV_ACTION_FIRST"]
        ELSE [label |-> "UNLABELED", label_reason |-> "UNKNOWN"]

\* Incremental labeling: a leaf hands over to its parent; an inner node is
\* labeled if its children determine its label, and then its parent is
\* visited in turn.
RECURSIVE label_propagate(_, _, _, _, _)
\* The node is labeled and its parent is never visited.
propagate_to_parent_never(t, node, controller_actions, environment_actions, cancel_children) == t

\* The node gets the label its children determine and hands over to its
\* parent once it is labeled.
propagate_to_parent(t, node, controller_actions, environment_actions, cancel_children) ==
    IF t[node].label # "UNLABELED" /\ node # Root
    THEN label_propagate(t, parent_of(node), controller_actions, environment_actions,
                         cancel_children)
    ELSE t

apply_decision(t, node, decision, cancel_children) ==
    IF decision.label = "UNLABELED" \/ t[node].label # "UNLABELED" THEN t
    ELSE set_label([t EXCEPT ![node].label_reason = decision.label_reason],
                   node, decision.label, cancel_children)

label_propagate(t, node, controller_actions, environment_actions, cancel_children) ==
    IF Len(children_of(t, node)) = 0
    THEN IF node = Root THEN t
         ELSE label_propagate(t, parent_of(node), controller_actions, environment_actions,
                              cancel_children)
    ELSE propagate_to_parent(
            apply_decision(t, node,
                           propagate_decision(t, node, controller_actions,
                                              environment_actions),
                           cancel_children),
            node, controller_actions, environment_actions, cancel_children)

(***************************************************************************)
(* The search: TreeSearch.                                                 *)
(***************************************************************************)
\* The constructor arguments of a TreeSearch and what they are built from.
Problem(name, ta, spec, ata_alphabet, controller_actions, environment_actions, K, location_order, clock_order) ==
    [name |-> name, ta |-> ta, ata |-> translate(spec, ata_alphabet),
     controller_actions |-> controller_actions,
     environment_actions |-> environment_actions, K |-> K,
     location_order |-> location_order, clock_order |-> clock_order]

\* Any ATA state counts, whatever its location.
has_sink_any_location(word) ==
    \E i \in DOMAIN word :
       \E region_symbol \in word[i] : ~is_ta_region_state(region_symbol)

has_sink(word) ==
    \E i \in DOMAIN word :
       \E region_symbol \in word[i] :
          ~is_ta_region_state(region_symbol) /\ region_symbol.formula = AP("sink")

has_satisfiable_ata_configuration(node) == ~\A word \in node.words : has_sink(word)

\* A node is bad only if all its words are.
is_bad_node_all_words(p, node) ==
    \A word \in node.words :
       /\ ta_is_accepting_configuration(p.ta, get_candidate(word)[1])
       /\ ata_is_accepting_configuration(p.ata, get_candidate(word)[2])

is_bad_node(p, node) ==
    \E word \in node.words :
       LET candidate == get_candidate(word)
       IN  /\ ta_is_accepting_configuration(p.ta, candidate[1])
           /\ ata_is_accepting_configuration(p.ata, candidate[2])

\* Only the parent is compared with the node.
dominates_parent(t, node) ==
    /\ node # Root
    /\ is_monotonically_dominated(t[parent_of(node)].words, t[node].words)

\* The node is compared with every expanded node of the tree, whether an
\* ancestor or not.
dominates_any_node(t, node) ==
    \E other \in DOMAIN t \ {node} :
       /\ t[other].is_expanded
       /\ is_monotonically_dominated(t[other].words, t[node].words)

dominates_ancestor(t, node) ==
    \E k \in 0..(Len(node) - 1) :
       is_monotonically_dominated(t[SubSeq(node, 1, k)].words, t[node].words)

\* The early exits of expand_node: the node gets its state and, with
\* incremental labeling, its label, which is propagated.
expand_leaf(p, incremental_labeling, terminate_early, t, node, reason, state, new_label) ==
    LET t1 == [t EXCEPT ![node].label_reason = reason,
                        ![node].state = state,
                        ![node].is_expanded = TRUE]
    IN  IF incremental_labeling
        THEN label_propagate(set_label(t1, node, new_label, terminate_early), node,
                             p.controller_actions, p.environment_actions, terminate_early)
        ELSE t1

\* All (increment, time successor) of the words of a node.
get_node_time_successors(p, node) ==
    UNION {{ts[i] : i \in DOMAIN ts} :
              ts \in {get_time_successors(word, p.K) : word \in node.words}}

\* All (increment, symbol, successor) of a node: the successors by every
\* symbol of the candidates of all time successors of all words.
get_successors(p, node) ==
    UNION {{<<ts[1], symbol, successor>> :
               successor \in get_next_canonical_words(p.ta, p.ata, get_candidate(ts[2]),
                                                      symbol, p.K)} :
              ts \in get_node_time_successors(p, node), symbol \in p.ta.alphabet}

\* The child node of one reg_a class: the successor words of the class and
\* the (increment, symbol) that lead to it.
create_child_earliest_action(class) ==
    Node({s[3] : s \in class},
         {<<s[1], s[2]>> : s \in {s \in class : \A other \in class : s[1] <= other[1]}})

create_child(class) == Node({s[3] : s \in class}, {<<s[1], s[2]>> : s \in class})

\* The child nodes, in the order of their reg_a classes.
create_children_of(p, successors, child_classes) ==
    [i \in DOMAIN child_classes |->
        create_child({s \in successors : reg_a(s[3]) = child_classes[i]})]

partition_successors(p, successors) ==
    create_children_of(p, successors,
                       sort_by_key(p, {reg_a(s[3]) : s \in successors}))

create_children(p, node) == partition_successors(p, get_successors(p, node))

\* The tree with the children appended to the node, which is now expanded.
add_children(t, node, children) ==
    [t EXCEPT ![node].is_expanded = TRUE]
    @@ [c \in {Append(node, i) : i \in DOMAIN children} |-> children[c[Len(c)]]]

\* A dead node is labeled and the label is kept from its parent.
publish_children_without_propagate(p, incremental_labeling, terminate_early, t, node, children) ==
    IF Len(children) = 0
    THEN [tree |->
             IF incremental_labeling
             THEN set_label([t EXCEPT ![node].is_expanded = TRUE,
                                      ![node].state = "DEAD",
                                      ![node].label_reason = "DEAD_NODE"],
                            node, "TOP", terminate_early)
             ELSE [t EXCEPT ![node].is_expanded = TRUE, ![node].state = "DEAD"],
          enqueued |-> <<>>]
    ELSE [tree |-> add_children(t, node, children),
          enqueued |-> [i \in DOMAIN children |-> Append(node, i)]]

\* The end of expand_node: the children are made nodes of the tree and
\* enqueued; a node without children is dead.
publish_children(p, incremental_labeling, terminate_early, t, node, children) ==
    IF Len(children) = 0
    THEN [tree |->
             IF incremental_labeling
             THEN label_propagate(
                     set_label([t EXCEPT ![node].is_expanded = TRUE,
                                         ![node].state = "DEAD",
                                         ![node].label_reason = "DEAD_NODE"],
                               node, "TOP", terminate_early),
                     node, p.controller_actions, p.environment_actions, terminate_early)
             ELSE [t EXCEPT ![node].is_expanded = TRUE, ![node].state = "DEAD"],
          enqueued |-> <<>>]
    ELSE [tree |-> add_children(t, node, children),
          enqueued |-> [i \in DOMAIN children |-> Append(node, i)]]

\* expand_node that looks for a dominating ancestor before it looks at the
\* ATA configurations.
expand_node_domination_first(p, incremental_labeling, terminate_early, t, node) ==
    IF t[node].is_expanded \/ t[node].label # "UNLABELED"
    THEN [tree |-> t, enqueued |-> <<>>]
    ELSE IF is_bad_node(p, t[node])
    THEN [tree |-> expand_leaf(p, incremental_labeling, terminate_early, t, node,
                               "BAD_NODE", "BAD", "BOTTOM"),
          enqueued |-> <<>>]
    ELSE IF dominates_ancestor(t, node)
    THEN [tree |-> expand_leaf(p, incremental_labeling, terminate_early, t, node,
                               "MONOTONIC_DOMINATION", "GOOD", "TOP"),
          enqueued |-> <<>>]
    ELSE IF ~has_satisfiable_ata_configuration(t[node])
    THEN [tree |-> expand_leaf(p, incremental_labeling, terminate_early, t, node,
                               "NO_ATA_SUCCESSOR", "GOOD", "TOP"),
          enqueued |-> <<>>]
    ELSE publish_children(p, incremental_labeling, terminate_early, t, node,
                          create_children(p, t[node]))

\* expand_node that does not look at is_expanded and the label first.
expand_node_without_return(p, incremental_labeling, terminate_early, t, node) ==
    IF is_bad_node(p, t[node])
    THEN [tree |-> expand_leaf(p, incremental_labeling, terminate_early, t, node,
                               "BAD_NODE", "BAD", "BOTTOM"),
          enqueued |-> <<>>]
    ELSE IF ~has_satisfiable_ata_configuration(t[node])
    THEN [tree |-> expand_leaf(p, incremental_labeling, terminate_early, t, node,
                               "NO_ATA_SUCCESSOR", "GOOD", "TOP"),
          enqueued |-> <<>>]
    ELSE IF dominates_ancestor(t, node)
    THEN [tree |-> expand_leaf(p, incremental_labeling, terminate_early, t, node,
                               "MONOTONIC_DOMINATION", "GOOD", "TOP"),
          enqueued |-> <<>>]
    ELSE publish_children(p, incremental_labeling, terminate_early, t, node,
                          create_children(p, t[node]))

\* expand_node, run as one step: the tree after it and the children it
\* hands to add_node_to_queue, in order.
expand_node(p, incremental_labeling, terminate_early, t, node) ==
    IF t[node].is_expanded \/ t[node].label # "UNLABELED"
    THEN [tree |-> t, enqueued |-> <<>>]
    ELSE IF is_bad_node(p, t[node])
    THEN [tree |-> expand_leaf(p, incremental_labeling, terminate_early, t, node,
                               "BAD_NODE", "BAD", "BOTTOM"),
          enqueued |-> <<>>]
    ELSE IF ~has_satisfiable_ata_configuration(t[node])
    THEN [tree |-> expand_leaf(p, incremental_labeling, terminate_early, t, node,
                               "NO_ATA_SUCCESSOR", "GOOD", "TOP"),
          enqueued |-> <<>>]
    ELSE IF dominates_ancestor(t, node)
    THEN [tree |-> expand_leaf(p, incremental_labeling, terminate_early, t, node,
                               "MONOTONIC_DOMINATION", "GOOD", "TOP"),
          enqueued |-> <<>>]
    ELSE publish_children(p, incremental_labeling, terminate_early, t, node,
                          create_children(p, t[node]))

\* The decision with a good controller step that need not be strictly first.
label_decision_not_strict(t, node, controller_actions, environment_actions) ==
    IF \/ first_step(t, node, "BOTTOM", environment_actions) = RegionIndexMax
       \/ first_step(t, node, "TOP", controller_actions)
             <= first_step(t, node, "BOTTOM", environment_actions)
    THEN "TOP"
    ELSE "BOTTOM"

\* The decision that takes any good controller step, whenever it comes.
label_decision_any_good_step(t, node, controller_actions, environment_actions) ==
    IF \/ first_step(t, node, "BOTTOM", environment_actions) = RegionIndexMax
       \/ first_step(t, node, "TOP", controller_actions) < RegionIndexMax
    THEN "TOP"
    ELSE "BOTTOM"

\* The decision that takes every BOTTOM child for a bad environment step.
label_decision_any_bad_child(t, node, controller_actions, environment_actions) ==
    IF \/ first_step(t, node, "BOTTOM", controller_actions \cup environment_actions)
             = RegionIndexMax
       \/ first_step(t, node, "TOP", controller_actions)
             < first_step(t, node, "BOTTOM", controller_actions \cup environment_actions)
    THEN "TOP"
    ELSE "BOTTOM"

\* The decision of label() for a node with state UNKNOWN whose children are
\* labeled.
label_decision(t, node, controller_actions, environment_actions) ==
    LET found_bad ==
            \E c \in DOMAIN t :
               /\ Len(c) = Len(node) + 1 /\ parent_of(c) = node
               /\ t[c].label = "BOTTOM"
               /\ \E a \in t[c].incoming_actions : a[2] \in environment_actions
        first_good_controller_step == first_step(t, node, "TOP", controller_actions)
        first_bad_environment_step == first_step(t, node, "BOTTOM", environment_actions)
    IN  IF ~found_bad \/ first_good_controller_step < first_bad_environment_step
        THEN "TOP"
        ELSE "BOTTOM"

\* label(): the final labels, children first.
RECURSIVE label(_, _, _, _)
RECURSIVE label_children(_, _, _, _)
label(p, terminate_early, t, node) ==
    IF t[node].state \in {"GOOD", "DEAD"}
    THEN set_label(t, node, "TOP", terminate_early)
    ELSE IF t[node].state = "BAD"
    THEN set_label(t, node, "BOTTOM", terminate_early)
    ELSE LET t1 == label_children(p, terminate_early, t, children_of(t, node))
         IN  set_label(t1, node,
                       label_decision(t1, node, p.controller_actions, p.environment_actions),
                       terminate_early)

label_children(p, terminate_early, t, children) ==
    IF children = <<>> THEN t
    ELSE label_children(p, terminate_early, label(p, terminate_early, t, Head(children)),
                        Tail(children))

(***************************************************************************)
(* The plants, specifications and action partitions the searches are built *)
(* on.                                                                     *)
(***************************************************************************)
Guard(clock, cmp, c) == [clock |-> clock, constraint |-> ClockConstraint(cmp, c)]

\* "Search in an ABConfiguration tree"
SearchProblem ==
    Problem("search",
            TimedAutomaton({"a", "b"}, "l0", {"l0", "l1", "l2"}, {"x"},
                           {TATransition("l0", "a", "l0", {Guard("x", "greater", 1)}, {"x"}),
                            TATransition("l0", "b", "l1", {Guard("x", "less", 1)}, {}),
                            TATransition("l2", "b", "l1", {}, {})}),
            MTLUntil(AP("a"), AP("b"), TimeInterval(2, "WEAK", 2, "INFTY")),
            {"a", "b"}, {"a"}, {"b"}, 2, <<"l0", "l1", "l2">>, <<"x">>)

\* "Search in an ABConfiguration tree without solution"
NoSolutionProblem ==
    Problem("no_solution",
            TimedAutomaton({"e", "c"}, "l0", {"l0", "l1"}, {"x"},
                           {TATransition("l0", "e", "l0", {}, {}),
                            TATransition("l1", "c", "l1", {}, {}),
                            TATransition("l0", "c", "l1", {Guard("x", "greater", 1)}, {})}),
            MTLUntil(MTLTrue, AP("e"), Unbounded),
            {"e", "c"}, {"c"}, {"e"}, 2, <<"l0", "l1">>, <<"x">>)

\* "Invoke incremental labelling on a trivial example"
TrivialProblem ==
    Problem("trivial",
            TimedAutomaton({"e0", "e1", "c"}, "l0", {"l1", "l2"}, {"x"},
                           {TATransition("l1", "e0", "l1", {}, {}),
                            TATransition("l2", "e1", "l2", {}, {}),
                            TATransition("l0", "c", "l1", {Guard("x", "greater_equal", 1)}, {}),
                            TATransition("l0", "e1", "l2", {Guard("x", "greater", 1)}, {})}),
            MTLUntil(AP("c"), AP("e1"), TimeInterval(2, "WEAK", 2, "INFTY")),
            {}, {"c"}, {"e0", "e1"}, 2, <<"l0", "l1", "l2">>, <<"x">>)

\* "Incremental labeling: Simultaneous good and bad action"
SimultaneousProblem ==
    Problem("simultaneous",
            TimedAutomaton({"e", "e_bad", "c"}, "l0", {"l1", "l2"}, {"x"},
                           {TATransition("l0", "e", "l1", {}, {}),
                            TATransition("l1", "e_bad", "l1", {}, {}),
                            TATransition("l0", "c", "l2", {}, {})}),
            MTLUntil(MTLTrue, AP("e_bad"), Unbounded),
            {"e", "e_bad", "c"}, {"c"}, {"e", "e_bad"}, 1, <<"l0", "l1", "l2">>, <<"x">>)

\* "Incremental labeling on tree without non-good/bad environment actions"
NoEnvironmentActionProblem ==
    Problem("no_environment_action",
            TimedAutomaton({"c", "e"}, "l0", {"l0", "l1"}, {"x"},
                           {TATransition("l0", "c", "l0", {}, {}),
                            TATransition("l0", "c", "l1", {}, {}),
                            TATransition("l1", "c", "l1", {}, {})}),
            MTLUntil(MTLTrue, AP("c"), Unbounded),
            {"c", "e"}, {"c"}, {"e"}, 0, <<"l0", "l1">>, <<"x">>)

\* "Search on a specification that gets unsatisfiable"
UnsatisfiableProblem ==
    Problem("unsatisfiable",
            TimedAutomaton({"c", "e"}, "l0", {"l1"}, {"c"},
                           {TATransition("l0", "c", "l1", {}, {})}),
            AP("e"),
            {"c", "e"}, {"c"}, {"e"}, 0, <<"l0", "l1">>, <<"c">>)

\* A search where the controller can leave strictly before the environment
\* can start the bad action, and where both can act at once later.
ControllerFirstProblem ==
    Problem("controller_first",
            TimedAutomaton({"e", "e_bad", "c"}, "l0", {"l1", "l2"}, {"x"},
                           {TATransition("l0", "c", "l2", {}, {}),
                            TATransition("l0", "e", "l1", {Guard("x", "greater", 1)}, {}),
                            TATransition("l1", "e_bad", "l1", {}, {}),
                            TATransition("l1", "c", "l2", {}, {})}),
            MTLUntil(MTLTrue, AP("e_bad"), Unbounded),
            {"e", "e_bad", "c"}, {"c"}, {"e", "e_bad"}, 1, <<"l0", "l1", "l2">>, <<"x">>)

\* A search where the plant alternates between two locations, so that a
\* node repeats the words of its grandparent and not those of its parent.
AlternatingProblem ==
    Problem("alternating",
            TimedAutomaton({"a", "b"}, "l0", {}, {"x"},
                           {TATransition("l0", "a", "l1", {}, {}),
                            TATransition("l1", "a", "l0", {}, {})}),
            MTLUntil(AP("a"), AP("b"), Unbounded),
            {"a", "b"}, {"a"}, {"b"}, 0, <<"l0", "l1">>, <<"x">>)

\* A search where the specification ends in the sink from two locations in a
\* row, so that a node without satisfiable ATA configuration repeats a word
\* of its parent.
OverlapProblem ==
    Problem("overlap",
            TimedAutomaton({"a", "b"}, "l0", {}, {"x"},
                           {TATransition("l0", "a", "l0", {}, {"x"}),
                            TATransition("l0", "b", "l1", {}, {"x"}),
                            TATransition("l1", "b", "l1", {}, {"x"})}),
            MTLUntil(AP("a"),
                     MTLAnd(AP("b"), MTLUntil(AP("a"), AP("c"), Unbounded)),
                     TimeInterval(1, "WEAK", 1, "INFTY")),
            {"a", "b", "c"}, {"a"}, {"b"}, 1, <<"l0", "l1">>, <<"x">>)

Problems ==
    <<SearchProblem, NoSolutionProblem, TrivialProblem, SimultaneousProblem,
      NoEnvironmentActionProblem, UnsatisfiableProblem, ControllerFirstProblem,
      AlternatingProblem, OverlapProblem>>

(***************************************************************************)
(* A TreeSearch object and the calls on it.                                *)
(***************************************************************************)
VARIABLES
    problem,               \* the index in Problems of the constructor arguments
    incremental_labeling,  \* incremental_labeling_
    terminate_early,       \* terminate_early_
    multi_threaded,        \* the argument of build_tree
    tree,                  \* the nodes of tree_root_, by path
    queue,                 \* the jobs of pool_: the node to expand and its priority
    running,               \* the jobs the workers of pool_ have taken and not yet run
    cost_counter,          \* the counter of the breadth-first heuristic
    labeled,               \* label() has been called
    translation,           \* a call of translate: its arguments and what it returns
    call                   \* a call of another function: its arguments and what it returns

vars == <<problem, incremental_labeling, terminate_early, multi_threaded, tree, queue,
          running, cost_counter, labeled, translation, call>>

\* The searches: no call of a function outside the search is under way.
NoCall == [function |-> "none", returned |-> {}]

\* The searches call translate before the constructor: no call is under way.
NoTranslation == [result |-> [error |-> "not_called"]]

\* The number of workers of the pool.
NumWorkers == 2

\* The problems that are also searched with build_tree(true): those with
\* the small trees, of which all interleavings of the workers are explored.
MultiThreadedProblems == {1, 5, 6, 7, 8}

\* The breadth-first heuristic: each call costs more than the one before.
compute_cost(counter) == counter + 1

Job(node, priority) == [node |-> node, priority |-> priority]

\* The tree after the constructor: the root with the canonical word of the
\* initial configurations.
initial_tree(p) ==
    [node \in {Root} |->
        Node({get_canonical_word(ta_initial_configuration(p.ta),
                                 ata_initial_configuration(p.ata), p.K)}, {})]

Init ==
    /\ translation = NoTranslation
    /\ call = NoCall
    /\ problem \in DOMAIN Problems
    /\ incremental_labeling \in BOOLEAN
    /\ terminate_early \in BOOLEAN
    /\ multi_threaded \in IF problem \in MultiThreadedProblems THEN BOOLEAN ELSE {FALSE}
    /\ tree = initial_tree(Problems[problem])
    /\ cost_counter = compute_cost(0)
    /\ queue = {Job(Root, -compute_cost(0))}
    /\ running = {}
    /\ labeled = FALSE

\* The job at the top of the queue: the one of highest priority.
top(q) == CHOOSE job \in q : \A other \in q : other.priority <= job.priority

\* add_node_to_queue with the cost as the priority.
add_nodes_to_queue_without_negation(q, counter, nodes) ==
    q \cup {Job(nodes[i], counter + i) : i \in DOMAIN nodes}

\* add_node_to_queue for each of the nodes in turn.
add_nodes_to_queue(q, counter, nodes) ==
    q \cup {Job(nodes[i], -(counter + i)) : i \in DOMAIN nodes}

\* The end of a job: the tree is the expanded one and the children are in
\* the queue.
job_done(q, expanded) ==
    /\ tree' = expanded.tree
    /\ queue' = add_nodes_to_queue(q, cost_counter, expanded.enqueued)
    /\ cost_counter' = cost_counter + Len(expanded.enqueued)
    /\ UNCHANGED <<call, translation, problem, incremental_labeling, terminate_early, multi_threaded,
                   labeled>>

\* The job runs: expand_node, and the children it adds to the queue q.
run_job(job, q) ==
    job_done(q, expand_node(Problems[problem], incremental_labeling, terminate_early,
                            tree, job.node))

\* step(), as build_tree(false) calls it: the top job is popped and run.
step ==
    /\ ~multi_threaded
    /\ ~labeled
    /\ queue # {}
    /\ run_job(top(queue), queue \ {top(queue)})
    /\ UNCHANGED running

\* build_tree(true): a free worker of the pool takes the top job.
worker_take ==
    /\ multi_threaded
    /\ Cardinality(running) < NumWorkers
    /\ queue # {}
    /\ running' = running \cup {top(queue)}
    /\ queue' = queue \ {top(queue)}
    /\ UNCHANGED <<call, translation, problem, incremental_labeling, terminate_early, multi_threaded, tree,
                   cost_counter, labeled>>

\* build_tree(true): a worker runs the job it has taken.
worker_run ==
    /\ multi_threaded
    /\ \E job \in running :
          /\ run_job(job, queue)
          /\ running' = running \ {job}

\* label() on the root, once the tree is built.
call_label ==
    /\ queue = {}
    /\ running = {}
    /\ ~labeled
    /\ ~incremental_labeling
    /\ tree' = label(Problems[problem], terminate_early, tree, Root)
    /\ labeled' = TRUE
    /\ UNCHANGED <<call, translation, problem, incremental_labeling, terminate_early, multi_threaded, queue,
                   running, cost_counter>>

Next == step \/ worker_take \/ worker_run \/ call_label

Spec == Init /\ [][Next]_vars

(***************************************************************************)
(* build_tree(false) as a function of the constructor arguments: step()    *)
(* until the queue is empty.                                               *)
(***************************************************************************)
RECURSIVE build_tree(_, _, _, _, _, _)
build_tree_step(p, incremental, cancel, q, counter, expanded) ==
    build_tree(p, incremental, cancel, expanded.tree,
               add_nodes_to_queue(q, counter, expanded.enqueued),
               counter + Len(expanded.enqueued))

build_tree(p, incremental, cancel, t, q, counter) ==
    IF q = {} THEN t
    ELSE build_tree_step(p, incremental, cancel, q \ {top(q)}, counter,
                         expand_node(p, incremental, cancel, t, top(q).node))

\* The tree of a search without incremental labeling after build_tree(false)
\* and label().
batch_labeled_tree(p, cancel) ==
    label(p, cancel,
          build_tree(p, FALSE, cancel, initial_tree(p), {Job(Root, -compute_cost(0))},
                     compute_cost(0)),
          Root)

\* The trees have the same nodes in the same places, with the same words,
\* incoming actions, states and labels.
same_tree(t1, t2) ==
    /\ DOMAIN t1 = DOMAIN t2
    /\ \A node \in DOMAIN t1 :
          /\ t1[node].words = t2[node].words
          /\ t1[node].incoming_actions = t2[node].incoming_actions
          /\ t1[node].state = t2[node].state
          /\ t1[node].label = t2[node].label

search_done == queue = {} /\ running = {}

\* C1: when a single-threaded search with incremental labeling and without
\* early termination is done, its tree is node for node the tree of the
\* search without incremental labeling after label(): same nodes, words,
\* incoming actions, states and labels.
C1_BatchEqualsIncremental ==
    (search_done /\ ~multi_threaded /\ incremental_labeling /\ ~terminate_early)
    => \A cancel \in BOOLEAN :
          same_tree(tree, batch_labeled_tree(Problems[problem], cancel))

\* A finished incremental search whose tree has inner nodes labeled TOP and
\* BOTTOM.
C1_Witness ==
    /\ search_done /\ ~multi_threaded /\ incremental_labeling /\ ~terminate_early
    /\ \E n1, n2 \in DOMAIN tree :
          /\ tree[n1].state = "UNKNOWN" /\ tree[n1].label = "TOP"
          /\ tree[n2].state = "UNKNOWN" /\ tree[n2].label = "BOTTOM"

\* The steps of the incoming actions among `actions` of the children of the
\* node that have the given label.
steps_of(node, child_label, actions) ==
    {a[1] : a \in {b \in UNION {tree[c].incoming_actions :
                                  c \in {d \in DOMAIN tree : /\ d # Root
                                                             /\ parent_of(d) = node
                                                             /\ tree[d].label = child_label}} :
                      b[2] \in actions}}

\* C2: after label(), a node with state GOOD or DEAD is TOP, a node with
\* state BAD is BOTTOM, and a node with state UNKNOWN is TOP iff no BOTTOM
\* child has an incoming environment action or some (TOP child, controller
\* action) has a step strictly below the steps of all (BOTTOM child,
\* environment action), and BOTTOM otherwise.
C2_LabelRule ==
    labeled =>
       \A node \in DOMAIN tree :
          LET good == steps_of(node, "TOP", Problems[problem].controller_actions)
              bad == steps_of(node, "BOTTOM", Problems[problem].environment_actions)
          IN  /\ tree[node].state \in {"GOOD", "DEAD"} => tree[node].label = "TOP"
              /\ tree[node].state = "BAD" => tree[node].label = "BOTTOM"
              /\ tree[node].state = "UNKNOWN" =>
                    /\ tree[node].label \in {"TOP", "BOTTOM"}
                    /\ tree[node].label = "TOP"
                          <=> (bad = {} \/ \E g \in good : \A b \in bad : g < b)

\* A labeled tree with a node that is BOTTOM although it has a TOP child by
\* a controller action, and a node that is TOP although it has a BOTTOM
\* child by an environment action.
C2_Witness ==
    /\ labeled
    /\ \E node \in DOMAIN tree :
          /\ tree[node].state = "UNKNOWN" /\ tree[node].label = "BOTTOM"
          /\ steps_of(node, "TOP", Problems[problem].controller_actions) # {}
    /\ \E node \in DOMAIN tree :
          /\ tree[node].state = "UNKNOWN" /\ tree[node].label = "TOP"
          /\ steps_of(node, "BOTTOM", Problems[problem].environment_actions) # {}

\* The node has a TOP child by a controller action and a BOTTOM child by an
\* environment action at the same step, and no TOP child by a controller
\* action at an earlier step.
simultaneous_good_and_bad(node) ==
    \E d \in steps_of(node, "TOP", Problems[problem].controller_actions)
                \cap steps_of(node, "BOTTOM", Problems[problem].environment_actions) :
       \A g \in steps_of(node, "TOP", Problems[problem].controller_actions) : d <= g

\* C4: a node with a good controller step and a bad environment step at
\* the same increment, and no earlier good controller step, is never TOP,
\* and it is BOTTOM after label() and at the end of a search with
\* incremental labeling (without early termination, which may cancel it).
C4_SimultaneousIsBottom ==
    \A node \in DOMAIN tree :
       simultaneous_good_and_bad(node)
       => /\ tree[node].label # "TOP"
          /\ (labeled \/ (search_done /\ incremental_labeling /\ ~terminate_early))
                => tree[node].label = "BOTTOM"

\* Incremental labeling has labeled such a node.
C4_Witness ==
    /\ incremental_labeling
    /\ \E node \in DOMAIN tree :
          simultaneous_good_and_bad(node) /\ tree[node].label = "BOTTOM"

(***************************************************************************)
(* The expansion of a node.                                                *)
(***************************************************************************)
\* The step expands the node: it was neither expanded nor labeled, and it
\* is expanded afterwards.
expanded_in_step(node) ==
    /\ ~tree[node].is_expanded
    /\ tree[node].label = "UNLABELED"
    /\ tree'[node].is_expanded

\* The word has a candidate whose location is accepting in the plant and
\* whose ATA locations are all accepting.
is_bad_word(word) ==
    /\ get_candidate(word)[1].location \in Problems[problem].ta.final_locations
    /\ \A s \in get_candidate(word)[2] :
          s.location \in Problems[problem].ata.final_locations

has_children(t, node) == \E c \in DOMAIN t : c # Root /\ parent_of(c) = node

\* The parent of the node has the label its children determine, if they
\* determine one.
propagated_to_parent(t, node) ==
    \/ node = Root
    \/ t[parent_of(node)].label # "UNLABELED"
    \/ propagate_decision(t, parent_of(node), Problems[problem].controller_actions,
                          Problems[problem].environment_actions).label = "UNLABELED"

\* C6: a step that expands a node makes it BAD exactly when one of its
\* words has a candidate that the plant and the ATA both accept; the step
\* that makes a node BAD adds no node to the tree and no job to the queue,
\* and with incremental labeling it labels the node BOTTOM and propagates
\* the label to the parent.
C6_BadNode ==
    [][\A node \in DOMAIN tree :
          expanded_in_step(node)
          => /\ tree'[node].state = "BAD" <=> \E word \in tree[node].words : is_bad_word(word)
             /\ tree'[node].state = "BAD"
                   => /\ DOMAIN tree' = DOMAIN tree
                      /\ queue' \subseteq queue
                      /\ incremental_labeling
                            => /\ tree'[node].label = "BOTTOM"
                               /\ propagated_to_parent(tree', node)]_vars

\* A BAD node with a word that is not bad, labeled BOTTOM, whose parent got
\* its label from it.
C6_Witness ==
    /\ incremental_labeling
    /\ \E node \in DOMAIN tree :
          /\ node # Root
          /\ tree[node].state = "BAD" /\ tree[node].label = "BOTTOM"
          /\ \E word \in tree[node].words : ~is_bad_word(word)
          /\ tree[parent_of(node)].label_reason = "BAD_ENV_ACTION_FIRST"

\* The component of a word contains the ATA sink location.
sink_in_component(component) ==
    \E region_symbol \in component :
       "formula" \in DOMAIN region_symbol /\ region_symbol.formula = AP("sink")

pruned_without_ata_successor(node) == tree[node].label_reason = "NO_ATA_SUCCESSOR"

\* C7 as stated: a node pruned as having no ATA successor has the sink in
\* every component of every word.
C7_SinkInEveryComponent ==
    \A node \in DOMAIN tree :
       pruned_without_ata_successor(node)
       => \A word \in tree[node].words :
             \A i \in DOMAIN word : sink_in_component(word[i])

\* C7: a node is pruned as having no ATA successor (state GOOD, no children,
\* label TOP with incremental labeling) only when every word of the node
\* contains the ATA sink location in at least one of its components.
C7_SinkInSomeComponent ==
    \A node \in DOMAIN tree :
       pruned_without_ata_successor(node)
       => /\ \A word \in tree[node].words :
                \E i \in DOMAIN word : sink_in_component(word[i])
          /\ tree[node].state = "GOOD"
          /\ tree[node].is_expanded
          /\ ~has_children(tree, node)
          /\ incremental_labeling => tree[node].label = "TOP"

\* A node pruned as having no ATA successor with a word of which one
\* component has the sink and another has not.
C7_Witness ==
    /\ incremental_labeling
    /\ \E node \in DOMAIN tree :
          /\ pruned_without_ata_successor(node)
          /\ tree[node].label = "TOP"
          /\ \E word \in tree[node].words :
                /\ \E i \in DOMAIN word : sink_in_component(word[i])
                /\ \E i \in DOMAIN word : ~sink_in_component(word[i])

proper_ancestors(node) == {SubSeq(node, 1, k) : k \in 0..(Len(node) - 1)}

pruned_by_domination(node) ==
    /\ tree[node].state = "GOOD"
    /\ tree[node].label_reason = "MONOTONIC_DOMINATION"

\* The node passed the first two checks of its expansion: it is not bad and
\* one of its words has no sink.
not_bad_and_satisfiable(node) ==
    /\ tree[node].is_expanded
    /\ ~\E word \in tree[node].words : is_bad_word(word)
    /\ \E word \in tree[node].words :
          \A i \in DOMAIN word : ~sink_in_component(word[i])

\* C8: an expanded node that is not bad and has a satisfiable ATA
\* configuration is pruned by monotonic domination exactly when the words of
\* one of its proper ancestors monotonically dominate its words; a pruned
\* node has no children and, with incremental labeling, the label TOP; the
\* root is never pruned this way.
C8_MonotonicDomination ==
    /\ ~pruned_by_domination(Root)
    /\ \A node \in DOMAIN tree :
          /\ not_bad_and_satisfiable(node)
                => (pruned_by_domination(node)
                      <=> \E ancestor \in proper_ancestors(node) :
                             is_monotonically_dominated(tree[ancestor].words,
                                                        tree[node].words))
          /\ pruned_by_domination(node)
                => /\ not_bad_and_satisfiable(node)
                   /\ ~has_children(tree, node)
                   /\ incremental_labeling => tree[node].label = "TOP"

\* A node pruned because an ancestor other than its parent dominates it,
\* while its parent does not, next to an expanded sibling that is not pruned.
C8_Witness ==
    /\ incremental_labeling
    /\ \E node \in DOMAIN tree :
          /\ Len(node) >= 2
          /\ pruned_by_domination(node)
          /\ tree[node].label = "TOP"
          /\ ~is_monotonically_dominated(tree[parent_of(node)].words, tree[node].words)
          /\ \E sibling \in DOMAIN tree :
                /\ sibling # Root /\ parent_of(sibling) = parent_of(node)
                /\ not_bad_and_satisfiable(sibling)
                /\ ~pruned_by_domination(sibling)

\* No time successor of a word of the node has a successor by a symbol of
\* the plant.
has_no_successor(t, node) ==
    \A word \in t[node].words :
       \A i \in DOMAIN get_time_successors(word, Problems[problem].K) :
          \A symbol \in Problems[problem].ta.alphabet :
             get_next_canonical_words(
                Problems[problem].ta, Problems[problem].ata,
                get_candidate(get_time_successors(word, Problems[problem].K)[i][2]),
                symbol, Problems[problem].K) = {}

\* The step expands the node and none of the three early exits is taken.
successors_computed_in_step(node) ==
    /\ expanded_in_step(node)
    /\ tree'[node].label_reason
          \notin {"BAD_NODE", "NO_ATA_SUCCESSOR", "MONOTONIC_DOMINATION"}

\* C9: a node whose expansion computes no successor word ends the step DEAD,
\* expanded and without children, and only such a node is DEAD; with
\* incremental labeling the step labels it TOP and propagates the label,
\* without incremental labeling a DEAD node is UNLABELED as long as label()
\* has not run.
C9_DeadNode ==
    [][/\ \A node \in DOMAIN tree :
             successors_computed_in_step(node)
             => /\ tree'[node].state = "DEAD" <=> has_no_successor(tree, node)
                /\ tree'[node].state = "DEAD"
                      => /\ tree'[node].is_expanded
                         /\ ~has_children(tree', node)
                         /\ incremental_labeling
                               => /\ tree'[node].label = "TOP"
                                  /\ propagated_to_parent(tree', node)
                         /\ ~incremental_labeling => tree'[node].label = "UNLABELED"
       /\ \A node \in DOMAIN tree' :
             tree'[node].state = "DEAD" /\ ~incremental_labeling /\ ~labeled'
             => tree'[node].label = "UNLABELED"]_vars

\* A DEAD node labeled TOP by its expansion, from which its parent got its
\* label.
C9_Witness ==
    /\ incremental_labeling
    /\ \E node \in DOMAIN tree :
          /\ node # Root
          /\ tree[node].state = "DEAD" /\ tree[node].label = "TOP"
          /\ tree[node].is_expanded /\ ~has_children(tree, node)
          /\ has_no_successor(tree, node)
          /\ tree[parent_of(node)].label # "UNLABELED"
          /\ \A sibling \in DOMAIN tree :
                sibling # Root /\ parent_of(sibling) = parent_of(node) /\ sibling # node
                => tree[sibling].label \in {"BOTTOM", "CANCELED", "UNLABELED"}

child_nodes(t, node) == {c \in DOMAIN t : c # Root /\ parent_of(c) = node}

\* The words get_next_canonical_words returns for the symbol after the
\* increment, over all words of the node.
successor_words(t, node, increment, symbol) ==
    UNION {get_next_canonical_words(Problems[problem].ta, Problems[problem].ata,
                                    get_candidate(time_successor[2]), symbol,
                                    Problems[problem].K) :
              time_successor \in
                 {ts \in get_node_time_successors(Problems[problem], t[node]) :
                     ts[1] = increment}}

increments_of(t, node) ==
    {ts[1] : ts \in get_node_time_successors(Problems[problem], t[node])}

all_successor_words(t, node) ==
    UNION {successor_words(t, node, increment, symbol) :
              increment \in increments_of(t, node),
              symbol \in Problems[problem].ta.alphabet}

\* C10: in the step in which expand_node gives a node its children, the
\* words of one child have the same reg_a projection, the words of two
\* children have different ones, the words of the children together are the
\* successor words of the node over all its words, time successors and
\* symbols, and the incoming actions of a child are the increments and
\* symbols that lead to a word with the projection of the child, of which
\* there is at least one.
C10_ChildrenPartition ==
    [][\A node \in DOMAIN tree :
          expanded_in_step(node) /\ has_children(tree', node)
          => /\ \A c \in child_nodes(tree', node) :
                   \A w1, w2 \in tree'[c].words : reg_a(w1) = reg_a(w2)
             /\ \A c1, c2 \in child_nodes(tree', node) :
                   c1 # c2 => \A w1 \in tree'[c1].words, w2 \in tree'[c2].words :
                                 reg_a(w1) # reg_a(w2)
             /\ UNION {tree'[c].words : c \in child_nodes(tree', node)}
                   = all_successor_words(tree, node)
             /\ \A c \in child_nodes(tree', node) :
                   /\ tree'[c].incoming_actions # {}
                   /\ tree'[c].incoming_actions
                         = {action \in increments_of(tree, node)
                                          \X Problems[problem].ta.alphabet :
                               \E w \in successor_words(tree, node, action[1], action[2]) :
                                  \E own \in tree'[c].words : reg_a(w) = reg_a(own)}]_vars

\* A node with two children, one of which has several words, reached by
\* several actions.
C10_Witness ==
    \E node \in DOMAIN tree :
       /\ Cardinality(child_nodes(tree, node)) >= 2
       /\ \E c \in child_nodes(tree, node) :
             /\ Cardinality(tree[c].words) >= 2
             /\ Cardinality(tree[c].incoming_actions) >= 2
             /\ tree[c].words # all_successor_words(tree, node)

(***************************************************************************)
(* Incremental labeling on a fixed tree: the leaves of an expanded tree    *)
(* get their labels one after the other, in any order, each followed by    *)
(* label_propagate ("Incremental labeling on constructed cases").          *)
(***************************************************************************)
\* The largest region increment of an incoming action of a constructed node.
MaxStep == 1

\* The problem whose controller and environment actions the constructed
\* trees use.
ConstructedProblem == 4

\* The problems whose built trees are labeled leaf by leaf.
BuiltProblems == {1, 6, 7}

\* create_test_node: an expanded node with the dummy words.
create_test_node(incoming_actions, state) ==
    [Node({<<{TARegionState("l0", "x", 0)}>>}, incoming_actions)
        EXCEPT !.is_expanded = TRUE, !.state = state]

ConstructedActions ==
    {{<<increment, action>>} : increment \in 0..MaxStep, action \in {"c", "e"}}
    \cup {{<<0, "c">>, <<MaxStep, "e">>}, {<<0, "e">>, <<MaxStep, "c">>}}

ConstructedLeaves ==
    {create_test_node(actions, state) : actions \in ConstructedActions,
                                        state \in {"GOOD", "BAD"}}

\* A root with three leaves, and a root with an inner node over two leaves
\* and a leaf.
ConstructedTrees ==
    {(<<>> :> create_test_node({}, "UNKNOWN")) @@ (<<1>> :> ch1) @@ (<<2>> :> ch2)
        @@ (<<3>> :> ch3) : ch1, ch2, ch3 \in ConstructedLeaves}
    \cup {(<<>> :> create_test_node({}, "UNKNOWN"))
             @@ (<<1>> :> create_test_node(actions, "UNKNOWN")) @@ (<<2>> :> ch2)
             @@ (<<1, 1>> :> ch4) @@ (<<1, 2>> :> ch5) :
             actions \in ConstructedActions, ch2, ch4, ch5 \in ConstructedLeaves}

\* The tree with all labels reset, as resetTreeLabels leaves it.
resetTreeLabels(t) == [node \in DOMAIN t |-> [t[node] EXCEPT !.label = "UNLABELED"]]

\* The tree build_tree(false) builds without incremental labeling.
built_tree(p) ==
    build_tree(p, FALSE, FALSE, initial_tree(p), {Job(Root, -compute_cost(0))},
               compute_cost(0))

LabelInit ==
    /\ translation = NoTranslation
    /\ call = NoCall
    /\ \/ /\ problem = ConstructedProblem
          /\ tree \in ConstructedTrees
       \/ /\ problem \in BuiltProblems
          /\ tree = built_tree(Problems[problem])
    /\ incremental_labeling = TRUE
    /\ terminate_early \in BOOLEAN
    /\ multi_threaded = FALSE
    /\ queue = {}
    /\ running = {}
    /\ cost_counter = 0
    /\ labeled = FALSE

\* The leaves whose label is known and not yet set.
unlabeled_leaves ==
    {node \in DOMAIN tree : /\ tree[node].state \in {"GOOD", "BAD", "DEAD"}
                            /\ tree[node].label = "UNLABELED"}

\* The label of the leaf is set and never propagated.
label_leaf_without_propagate(p, cancel_children, t, node) ==
    set_label(t, node, IF t[node].state = "BAD" THEN "BOTTOM" ELSE "TOP", cancel_children)

\* What expand_node does with incremental labeling for a node that is
\* good, bad or dead: the label is set and propagated.
label_leaf(p, cancel_children, t, node) ==
    label_propagate(set_label(t, node, IF t[node].state = "BAD" THEN "BOTTOM" ELSE "TOP",
                              cancel_children),
                    node, p.controller_actions, p.environment_actions, cancel_children)

resolve_leaf ==
    /\ incremental_labeling
    /\ \E node \in unlabeled_leaves :
          tree' = label_leaf(Problems[problem], terminate_early, tree, node)
    /\ UNCHANGED <<call, translation, problem, incremental_labeling, terminate_early, multi_threaded, queue,
                   running, cost_counter, labeled>>

LabelNext == resolve_leaf

LabelSpec == LabelInit /\ [][LabelNext]_vars

\* The children of a node that have neither TOP nor BOTTOM.
undecided_children(node) ==
    {c \in DOMAIN tree : /\ c # Root /\ parent_of(c) = node
                         /\ tree[c].label \notin {"TOP", "BOTTOM"}}

\* The tree in which the nodes of the assignment have the labels it gives.
with_labels(t, assignment) ==
    [c \in DOMAIN t |->
        IF c \in DOMAIN assignment THEN [t[c] EXCEPT !.label = assignment[c]] ELSE t[c]]

\* C3: a label that incremental labeling has given to an inner node is
\* final: whatever TOP or BOTTOM the children without such a label get
\* later, the rule of label() gives the node this very label.
C3_EarlyDecisionIsFinal ==
    \A node \in DOMAIN tree :
       (tree[node].state = "UNKNOWN" /\ tree[node].label \in {"TOP", "BOTTOM"})
       => \A assignment \in [undecided_children(node) -> {"TOP", "BOTTOM"}] :
             label_decision(with_labels(tree, assignment), node,
                            Problems[problem].controller_actions,
                            Problems[problem].environment_actions) = tree[node].label

\* The root is BOTTOM, resp. TOP by a good controller action, while one of
\* its children is still unlabeled.
C3_Witness ==
    /\ ~terminate_early
    /\ tree[Root].label = "BOTTOM"
    /\ \E c \in undecided_children(Root) :
          /\ tree[c].label = "UNLABELED"
          /\ \E a \in tree[c].incoming_actions :
                a[2] \in Problems[problem].controller_actions

\* The labels label() gives to the nodes of the tree.
batch_labels(t) == label(Problems[problem], FALSE, resetTreeLabels(t), Root)

Worker(job, position) ==
    [node |-> job.node, priority |-> job.priority, position |-> position]

\* The children are in the child list of the node, which is not yet expanded.
append_children(t, node, children) ==
    t @@ [c \in {Append(node, i) : i \in DOMAIN children} |-> children[c[Len(c)]]]

\* children.clear()
clear_children(t, node) == [c \in DOMAIN t \ (subtree_of(t, node) \ {node}) |-> t[c]]

\* expand_node up to the creation of the child nodes: the tree after it, and
\* whether the job goes on to the test for a canceled node.
begin_expand_node(p, incremental, cancel, t, node) ==
    IF t[node].is_expanded \/ t[node].label # "UNLABELED"
    THEN [tree |-> t, computed |-> FALSE]
    ELSE IF is_bad_node(p, t[node])
    THEN [tree |-> expand_leaf(p, incremental, cancel, t, node, "BAD_NODE", "BAD", "BOTTOM"),
          computed |-> FALSE]
    ELSE IF ~has_satisfiable_ata_configuration(t[node])
    THEN [tree |-> expand_leaf(p, incremental, cancel, t, node,
                               "NO_ATA_SUCCESSOR", "GOOD", "TOP"),
          computed |-> FALSE]
    ELSE IF dominates_ancestor(t, node)
    THEN [tree |-> expand_leaf(p, incremental, cancel, t, node,
                               "MONOTONIC_DOMINATION", "GOOD", "TOP"),
          computed |-> FALSE]
    ELSE [tree |-> append_children(t, node, create_children(p, t[node])),
          computed |-> TRUE]

\* The test for a node that was canceled in the meantime: its children are
\* dropped and the job ends.
test_canceled(t, node) ==
    IF t[node].label = "CANCELED"
    THEN [tree |-> [clear_children(t, node) EXCEPT ![node].is_expanded = TRUE],
          canceled |-> TRUE]
    ELSE [tree |-> t, canceled |-> FALSE]

\* The end of expand_node that also hands the node itself to the queue.
finish_expand_node_enqueue_again(p, incremental, cancel, t, node) ==
    LET published == publish_children(p, incremental, cancel, t, node,
                                      create_children(p, t[node]))
    IN  [tree |-> published.tree,
         enqueued |-> IF Len(published.enqueued) = 0 THEN <<>>
                      ELSE Append(published.enqueued, node)]

\* The end of expand_node after the test: the node is expanded and its
\* children are handed to the queue; a node without children is dead.
finish_expand_node(p, incremental, cancel, t, node) ==
    publish_children(p, incremental, cancel, t, node, create_children(p, t[node]))

\* wait() of the pool returns when the queue is empty and no worker is busy.
pool_idle(q, workers) == q = {} /\ workers = {}

PoolInit ==
    /\ translation = NoTranslation
    /\ call = NoCall
    /\ problem \in MultiThreadedProblems
    /\ incremental_labeling \in BOOLEAN
    /\ terminate_early \in BOOLEAN
    /\ multi_threaded = TRUE
    /\ tree = initial_tree(Problems[problem])
    /\ cost_counter = compute_cost(0)
    /\ queue = {Job(Root, -compute_cost(0))}
    /\ running = {}
    /\ labeled = FALSE

\* A free worker pops the top job.
pool_take ==
    /\ ~labeled
    /\ Cardinality(running) < NumWorkers
    /\ queue # {}
    /\ running' = running \cup {Worker(top(queue), "taken")}
    /\ queue' = queue \ {top(queue)}
    /\ UNCHANGED <<call, translation, problem, incremental_labeling, terminate_early, multi_threaded, tree,
                   cost_counter, labeled>>

\* The worker goes on with its job at the position, or the job has ended.
goes_on(worker, new_tree, ended, position) ==
    /\ tree' = new_tree
    /\ running' = IF ended THEN running \ {worker}
                  ELSE (running \ {worker}) \cup {Worker(worker, position)}
    /\ UNCHANGED <<call, translation, problem, incremental_labeling, terminate_early, multi_threaded, queue,
                   cost_counter, labeled>>

begun(worker, begin) == goes_on(worker, begin.tree, ~begin.computed, "computed")

\* A worker runs expand_node up to the creation of the child nodes.
pool_begin ==
    \E worker \in running :
       /\ worker.position = "taken"
       /\ begun(worker, begin_expand_node(Problems[problem], incremental_labeling,
                                          terminate_early, tree, worker.node))

tested(worker, test) == goes_on(worker, test.tree, test.canceled, "tested")

\* A worker tests whether the node was canceled in the meantime.
pool_test ==
    \E worker \in running :
       /\ worker.position = "computed"
       /\ tested(worker, test_canceled(tree, worker.node))

\* A worker runs the end of expand_node, which ends the job.
pool_finish ==
    \E worker \in running :
       /\ worker.position = "tested"
       /\ job_done(queue, finish_expand_node(Problems[problem], incremental_labeling,
                                             terminate_early, tree, worker.node))
       /\ running' = running \ {worker}

\* build_tree(true) that returns without wait().
pool_return_without_wait ==
    /\ ~labeled
    /\ tree' = IF incremental_labeling THEN tree
               ELSE label(Problems[problem], terminate_early, tree, Root)
    /\ labeled' = TRUE
    /\ UNCHANGED <<call, translation, problem, incremental_labeling, terminate_early, multi_threaded, queue,
                   running, cost_counter>>

\* wait() returns and with it build_tree(true); a tree that was not labeled
\* during the search is labeled by label().
pool_return ==
    /\ ~labeled
    /\ pool_idle(queue, running)
    /\ tree' = IF incremental_labeling THEN tree
               ELSE label(Problems[problem], terminate_early, tree, Root)
    /\ labeled' = TRUE
    /\ UNCHANGED <<call, translation, problem, incremental_labeling, terminate_early, multi_threaded, queue,
                   running, cost_counter>>

PoolNext == pool_take \/ pool_begin \/ pool_test \/ pool_finish \/ pool_return

PoolSpec == PoolInit /\ [][PoolNext]_vars

\* The searches that label the tree while they build it: the tree has its
\* labels when build_tree(true) returns.
PoolFairInit == PoolInit /\ incremental_labeling

\* The caller of build_tree, blocked in wait(), is woken up and goes on once
\* wait() can return.
PoolFairSpec == PoolFairInit /\ [][PoolNext]_vars /\ WF_vars(pool_return)

\* The nodes that have a job in the queue or in the hands of a worker.
nodes_of(jobs) == {job.node : job \in jobs}

\* No node has two jobs among the queued and the taken ones.
one_job_per_node(q, workers) ==
    /\ Cardinality(nodes_of(q)) = Cardinality(q)
    /\ Cardinality(nodes_of(workers)) = Cardinality(workers)
    /\ nodes_of(q) \cap nodes_of(workers) = {}

\* The workers that end the last part of expand_node in this step.
finishing(workers, workers_after) ==
    {worker \in workers \ workers_after : worker.position = "tested"}

\* C11: in a multi-threaded search every node is handed to the queue exactly
\* once: the root by the constructor, and the children of a node, one job
\* each, in the step that ends the only job of the node; no other step adds a
\* job. No two workers hold a job for the same node, child nodes are created
\* only by the worker that holds the job of a node without children, and a
\* node that has children keeps them unless they are dropped.
C11_EnqueuedOnce ==
    [][/\ Cardinality(nodes_of(queue' \ queue)) = Cardinality(queue' \ queue)
       /\ \A worker \in finishing(running, running') :
             nodes_of(queue' \ queue) = child_nodes(tree', worker.node)
       /\ queue' \ queue # {} => finishing(running, running') # {}
       /\ nodes_of(queue) \cup nodes_of(running) \subseteq DOMAIN tree
       /\ one_job_per_node(queue, running)
       /\ one_job_per_node(queue', running')
       /\ \A node \in DOMAIN tree' \ DOMAIN tree :
             /\ ~has_children(tree, parent_of(node))
             /\ \E worker \in running :
                   worker.position = "taken" /\ worker.node = parent_of(node)
       /\ \A node \in DOMAIN tree :
             has_children(tree, node)
             => child_nodes(tree', node) \in {child_nodes(tree, node), {}}]_vars

\* Two workers have created the children of two nodes below the root at the
\* same time, while the children of the root have their jobs.
C11_Witness ==
    /\ tree[Root].is_expanded
    /\ \E w1, w2 \in running :
          /\ w1 # w2 /\ w1.position = "tested" /\ w2.position = "tested"
          /\ w1.node # Root /\ w2.node # Root
          /\ has_children(tree, w1.node) /\ has_children(tree, w2.node)

\* The workers past the first test of expand_node whose node is canceled.
canceled_in_expansion(t, workers) ==
    {worker \in workers : worker.position # "taken" /\ t[worker.node].label = "CANCELED"}

\* C12: with terminate_early, when a worker ends the job of a node that was
\* labeled CANCELED while it was expanded, the node has no children, is
\* expanded, and nothing is added to the queue; when the queue is empty and
\* no worker is busy, no CANCELED node has children.
C12_CanceledPublishesNothing ==
    [][/\ \A worker \in canceled_in_expansion(tree, running) :
             worker.node \notin nodes_of(running')
             => /\ child_nodes(tree', worker.node) = {}
                /\ tree'[worker.node].is_expanded
                /\ queue' = queue
       /\ pool_idle(queue', running')
          => \A node \in DOMAIN tree' :
                tree'[node].label = "CANCELED" => child_nodes(tree', node) = {}]_vars

\* C13: build_tree(true) returns only in a state where the queue is empty
\* and no worker holds a job, so never while a job that is still running can
\* add children to the queue; after it has returned no job runs; and once the
\* queue is empty and no worker holds a job, it does return.
C13_ReturnsWhenIdle ==
    /\ [][(~labeled /\ labeled') => (queue = {} /\ running = {})]_vars
    /\ [][labeled => (queue' = {} /\ running' = {} /\ tree' = tree)]_vars
    /\ (queue = {} /\ running = {}) ~> labeled

\* The queue is empty for the moment while a worker is about to hand the
\* children of its node to the queue, and build_tree has not returned.
C13_Witness ==
    /\ ~labeled
    /\ queue = {}
    /\ \E worker \in running :
          /\ worker.position = "tested"
          /\ worker.node # Root
          /\ has_children(tree, worker.node)
          /\ tree[worker.node].label # "CANCELED"

(***************************************************************************)
(* step() and build_tree(false)                                            *)
(***************************************************************************)

\* The jobs that a step takes from the queue.
popped == queue \ queue'

\* The cost the heuristic gave the node of the job.
cost_of(job) == -job.priority

\* The order in which a breadth-first search comes to the nodes: by depth,
\* and in one depth by the order of the parents and then of the children.
enqueued_before(a, b) == Len(a) < Len(b) \/ (Len(a) = Len(b) /\ seq_less(a, b))

\* C14: every step() takes exactly one job from the queue, one whose cost no
\* other queued job undercuts, and with the breadth-first heuristic it is the
\* job of the node that was enqueued first: the root, then the children of
\* the root in their order, then their children.
C14_MinimalCostFirst ==
    [][(~multi_threaded /\ queue # {} /\ ~labeled)
       => /\ Cardinality(popped) = 1
          /\ \A job \in popped, other \in queue :
                /\ cost_of(job) <= cost_of(other)
                /\ other # job => enqueued_before(job.node, other.node)]_vars

\* The search has expanded a child of the first child of the root while
\* children of later children of the root are in the queue.
C14_Witness ==
    /\ ~multi_threaded
    /\ \E node \in DOMAIN tree, job \in queue :
          /\ Len(node) = 2 /\ tree[node].is_expanded
          /\ Len(job.node) = 2
          /\ enqueued_before(node, job.node)
          /\ node[1] # job.node[1]

\* The end of a call of step() that has run a job.
step_returns_true(q, counter, expanded) ==
    [returns |-> TRUE, tree |-> expanded.tree,
     queue |-> add_nodes_to_queue(q, counter, expanded.enqueued),
     cost_counter |-> counter + Len(expanded.enqueued)]

\* step() that runs the top job and leaves it in the queue.
step_of_without_pop(p, incremental, cancel, t, q, counter) ==
    IF q = {}
    THEN [returns |-> FALSE, tree |-> t, queue |-> q, cost_counter |-> counter]
    ELSE step_returns_true(q, counter, expand_node(p, incremental, cancel, t, top(q).node))

\* step() as a function: what it returns, and the tree, the queue and the
\* counter of the heuristic after it.
step_of(p, incremental, cancel, t, q, counter) ==
    IF q = {}
    THEN [returns |-> FALSE, tree |-> t, queue |-> q, cost_counter |-> counter]
    ELSE step_returns_true(q \ {top(q)}, counter,
                           expand_node(p, incremental, cancel, t, top(q).node))

\* step() called in the current state.
step_call ==
    step_of(Problems[problem], incremental_labeling, terminate_early, tree, queue,
            cost_counter)

\* The tree that build_tree(false) returns for the constructor arguments.
single_threaded_tree ==
    build_tree(Problems[problem], incremental_labeling, terminate_early,
               initial_tree(Problems[problem]), {Job(Root, -compute_cost(0))},
               compute_cost(0))

\* C15: step() returns false exactly when the queue is empty, and then tree
\* and queue are as before; otherwise exactly one job has left the queue and
\* its node has been run through expand_node. Every step of a single-threaded
\* search is such a call that returns true, and when the queue is empty the
\* tree is the one build_tree(false) returns, which calls step() until it
\* returns false.
C15_StepUntilEmpty ==
    /\ [](~multi_threaded /\ ~labeled
          => /\ step_call.returns <=> queue # {}
             /\ ~step_call.returns
                => /\ step_call.tree = tree /\ step_call.queue = queue
                   /\ step_call.cost_counter = cost_counter
             /\ step_call.returns
                => /\ Cardinality(queue \ step_call.queue) = 1
                   /\ \A job \in queue \ step_call.queue :
                         /\ \A other \in queue : other.priority <= job.priority
                         /\ step_call.tree
                               = expand_node(Problems[problem], incremental_labeling,
                                             terminate_early, tree, job.node).tree)
    /\ [][(~multi_threaded /\ ~labeled')
          => /\ step_call.returns
             /\ tree' = step_call.tree
             /\ queue' = step_call.queue
             /\ cost_counter' = step_call.cost_counter]_vars
    /\ [](~multi_threaded /\ ~labeled /\ queue = {} => tree = single_threaded_tree)

\* The queue of a single-threaded search is empty after more than one step,
\* label() has not been called, and a further step() returns false.
C15_Witness ==
    /\ ~multi_threaded /\ ~labeled
    /\ queue = {}
    /\ Cardinality(DOMAIN tree) > 3
    /\ ~step_call.returns

(***************************************************************************)
(* The search of "Search in an ABConfiguration tree"                       *)
(***************************************************************************)

\* The nodes that have been expanded.
expanded_nodes == {node \in DOMAIN tree : tree[node].is_expanded}

\* The single-threaded search of the test without incremental labeling.
search_in_tree == problem = 1 /\ ~multi_threaded /\ ~incremental_labeling

\* C16: the single-threaded search on the first plant is done after exactly
\* seven expansions. The root then has three children; the first is UNKNOWN
\* and has three leaves GOOD, BAD, BAD, the other two are DEAD and have no
\* children; label() makes the root TOP and its first child BOTTOM.
C16_SearchTree ==
    search_in_tree
    => /\ queue = {} <=> Cardinality(expanded_nodes) = 7
       /\ Cardinality(expanded_nodes) + Cardinality(queue) = Cardinality(DOMAIN tree)
       /\ queue = {}
          => /\ DOMAIN tree = {<<>>, <<1>>, <<2>>, <<3>>, <<1, 1>>, <<1, 2>>, <<1, 3>>}
             /\ tree[<<>>].state = "UNKNOWN" /\ tree[<<1>>].state = "UNKNOWN"
             /\ tree[<<2>>].state = "DEAD" /\ tree[<<3>>].state = "DEAD"
             /\ tree[<<1, 1>>].state = "GOOD"
             /\ tree[<<1, 2>>].state = "BAD" /\ tree[<<1, 3>>].state = "BAD"
       /\ labeled
          => /\ tree[<<>>].label = "TOP" /\ tree[<<1>>].label = "BOTTOM"
             /\ tree[<<2>>].label = "TOP" /\ tree[<<3>>].label = "TOP"
             /\ tree[<<1, 1>>].label = "TOP"
             /\ tree[<<1, 2>>].label = "BOTTOM" /\ tree[<<1, 3>>].label = "BOTTOM"

\* The search on the first plant is done and label() has been called.
C16_Witness ==
    /\ search_in_tree /\ ~terminate_early
    /\ labeled
    /\ Cardinality(expanded_nodes) = 7

(***************************************************************************)
(* Calls of translate.  The formula and the alphabet of a call are drawn   *)
(* from bounded sets; call_translate applies translate to them.            *)
(***************************************************************************)
Intervals ==
    {Unbounded, TimeInterval(1, "WEAK", 2, "STRICT"), TimeInterval(2, "STRICT", 0, "INFTY")}

AtomicFormulas == {MTLTrue, MTLFalse, AP("a"), AP("b"), AP("l0")}

\* The formulas with one operator over the operands S (left) and T (right).
Operators(S, T) ==
    {MTLNeg(f) : f \in S}
    \cup {MTLAnd(f, g) : f \in S, g \in T}
    \cup {MTLOr(f, g) : f \in S, g \in T}
    \cup {MTLUntil(f, g, I) : f \in S, g \in T, I \in Intervals}
    \cup {MTLDualUntil(f, g, I) : f \in S, g \in T, I \in Intervals}

\* Operands that bring temporal operators below another operator.
NestedOperands ==
    {AP("a"),
     MTLNeg(AP("b")),
     MTLUntil(AP("a"), AP("b"), TimeInterval(2, "STRICT", 0, "INFTY")),
     MTLDualUntil(AP("b"), AP("a"), TimeInterval(1, "WEAK", 2, "STRICT")),
     MTLNeg(MTLUntil(MTLTrue, AP("b"), Unbounded))}

Formulas ==
    AtomicFormulas
    \cup Operators(AtomicFormulas, AtomicFormulas)
    \cup Operators(NestedOperands, NestedOperands)
    \cup {MTLNeg(f) : f \in Operators(NestedOperands, NestedOperands)}

\* The alphabets passed to translate; the empty one is the default argument.
Alphabets == {{}, {"a"}, {"a", "b"}, {"a", "b", "c"}, {"l0"}, {"a", "l0"}}

NotCalled == [error |-> "not_called"]

TranslateInit ==
    /\ call = NoCall
    /\ translation \in {[input_formula |-> f, alphabet |-> A, result |-> NotCalled] :
                           f \in Formulas, A \in Alphabets}
    /\ problem = 1
    /\ incremental_labeling = FALSE
    /\ terminate_early = FALSE
    /\ multi_threaded = FALSE
    /\ tree = <<>>
    /\ queue = {}
    /\ running = {}
    /\ cost_counter = 0
    /\ labeled = FALSE

call_translate ==
    /\ translation.result = NotCalled
    /\ translation' = [translation EXCEPT
                          !.result = translate(translation.input_formula,
                                               translation.alphabet)]
    /\ UNCHANGED <<call, problem, incremental_labeling, terminate_early, multi_threaded, tree,
                   queue, running, cost_counter, labeled>>

TranslateNext == call_translate

TranslateSpec == TranslateInit /\ [][TranslateNext]_vars

\* translate has returned an automaton.
translated == translation.result.error = "none"

\* The until and dual until subformulas of a formula that are not below
\* another until or dual until.
RECURSIVE exposed(_)
exposed(formula) ==
    IF formula.op \in {"LUNTIL", "LDUNTIL"} THEN {formula}
    ELSE IF formula.op \in {"LAND", "LOR"} THEN exposed(formula.l) \cup exposed(formula.r)
    ELSE {}

\* The locations an ATA formula activates, each with whether it is below a
\* clock reset.
RECURSIVE activations(_, _)
activations(formula, reset) ==
    CASE formula.f = "LOC" -> {<<formula.location, reset>>}
      [] formula.f = "RESET" -> activations(formula.sub, TRUE)
      [] formula.f \in {"AND", "OR"} ->
            activations(formula.l, reset) \cup activations(formula.r, reset)
      [] OTHER -> {}

transitions_from(ata, source, symbol) ==
    {t \in ata.transitions : t.source = source /\ t.symbol = symbol}

activations_from(ata, source, symbol) ==
    UNION {activations(t.formula, FALSE) : t \in transitions_from(ata, source, symbol)}

operands_of(psi) == exposed(psi.l) \cup exposed(psi.r)

until_formula(psi, a) ==
    create_disjunction(create_conjunction(init(psi.r, a, FALSE), create_contains(psi.I)),
                       create_conjunction(init(psi.l, a, FALSE), LocationFormula(psi)))

dual_until_formula(psi, a) ==
    create_conjunction(create_disjunction(init(psi.r, a, FALSE),
                                          create_negated_contains(psi.I)),
                       create_disjunction(init(psi.l, a, FALSE), LocationFormula(psi)))

transitions_as_constructed(ata, phi) ==
    /\ \A t \in ata.transitions :
          t.symbol \in ata.alphabet /\ t.source \in {AP("l0")} \cup get_closure(phi)
    /\ \A a \in ata.alphabet :
          /\ transitions_from(ata, AP("l0"), a) = {Transition(AP("l0"), a, init(phi, a, TRUE))}
          /\ activations_from(ata, AP("l0"), a) = exposed(phi) \X {FALSE}
          /\ \A psi \in get_subformulas_of_type(phi, "LUNTIL") :
                /\ transitions_from(ata, psi, a) = {Transition(psi, a, until_formula(psi, a))}
                /\ activations_from(ata, psi, a)
                      = {<<psi, FALSE>>} \cup (operands_of(psi) \X {TRUE})
          /\ \A psi \in get_subformulas_of_type(phi, "LDUNTIL") :
                /\ transitions_from(ata, psi, a)
                      = {Transition(psi, a, dual_until_formula(psi, a))}
                /\ activations_from(ata, psi, a)
                      = {<<psi, FALSE>>} \cup (operands_of(psi) \X {TRUE})

\* C18: for every symbol a of the alphabet the automaton has exactly one
\* transition from l0, with formula init(PNF(phi), a, first = true), exactly
\* one from every until subformula psi, with formula
\* (init(phi2, a) AND contains(I)) OR (init(phi1, a) AND psi), and exactly one
\* from every dual until subformula, with formula
\* (init(phi2, a) OR not-contains(I)) AND (init(phi1, a) OR psi), and no other
\* transitions; the untils and dual untils reached through init in the
\* transitions of an until or dual until are activated below a clock reset,
\* those reached from l0 without one.
C18_TransitionsOfTranslate ==
    translated => transitions_as_constructed(translation.result,
                                             to_positive_normal_form(translation.input_formula))

\* A translated formula with an until and a dual until of which one is
\* reached from l0 and has an until or dual until as an operand.
C18_Witness ==
    /\ translated
    /\ translation.result.alphabet # {}
    /\ get_subformulas_of_type(to_positive_normal_form(translation.input_formula), "LUNTIL") # {}
    /\ get_subformulas_of_type(to_positive_normal_form(translation.input_formula), "LDUNTIL") # {}
    /\ \E psi \in exposed(to_positive_normal_form(translation.input_formula)) :
          /\ operands_of(psi) # {}
          /\ \E a \in translation.result.alphabet :
                /\ <<psi, FALSE>> \in activations_from(translation.result, AP("l0"), a)
                /\ operands_of(psi) \X {TRUE} \subseteq activations_from(translation.result, psi, a)

accepting_as_constructed(ata, phi) ==
    /\ ata.final_locations = get_subformulas_of_type(phi, "LDUNTIL")
    /\ \A location \in ata.final_locations : location.op = "LDUNTIL"
    /\ ata.initial_location \notin ata.final_locations
    /\ ata.sink_location \notin ata.final_locations
    /\ get_subformulas_of_type(phi, "LUNTIL") \cap ata.final_locations = {}

\* C19: the accepting locations of the automaton are exactly the dual until
\* subformulas of PNF(phi); l0, every until subformula and the sink location
\* are not accepting.
C19_AcceptingLocations ==
    translated => accepting_as_constructed(translation.result,
                                           to_positive_normal_form(translation.input_formula))

\* A translated formula with a negation above an until, whose automaton has
\* accepting locations and until locations.
C19_Witness ==
    /\ translated
    /\ \E f \in get_subformulas_of_type(translation.input_formula, "LNEG") : f.l.op = "LUNTIL"
    /\ translation.result.final_locations # {}
    /\ \E t \in translation.result.transitions : t.source.op = "LUNTIL"

\* The atomic propositions that occur in a formula as it was passed in.
RECURSIVE atomic_propositions(_)
atomic_propositions(f) ==
    CASE f.op = "AP" -> {f.ap}
      [] f.op = "LNEG" -> atomic_propositions(f.l)
      [] f.op \in {"LAND", "LOR", "LUNTIL", "LDUNTIL"} ->
            atomic_propositions(f.l) \cup atomic_propositions(f.r)
      [] OTHER -> {}

effective_alphabet(arguments) ==
    IF arguments.alphabet = {} THEN atomic_propositions(arguments.input_formula)
    ELSE arguments.alphabet

\* C20: translate ends with the invalid-argument error, returning no
\* automaton, if the effective alphabet (the alphabet passed in, or the
\* atomic propositions of the formula if none is passed) contains l0, and
\* without that error for every other alphabet.
C20_AlphabetWithL0Rejected ==
    translation.result # NotCalled =>
        IF "l0" \in effective_alphabet(translation)
        THEN translation.result = [error |-> "invalid_argument"]
        ELSE translated /\ translation.result.alphabet = effective_alphabet(translation)

\* translate was called without an alphabet on a formula over l0 and ended
\* with the error.
C20_Witness ==
    /\ translation.result = [error |-> "invalid_argument"]
    /\ translation.alphabet = {}
    /\ "l0" \in atomic_propositions(translation.input_formula)

\* A formula in positive normal form: negation only above TRUE, FALSE and
\* atomic propositions.
RECURSIVE is_positive_normal_form(_)
is_positive_normal_form(f) ==
    CASE f.op = "LNEG" -> f.l.op \in {"TRUE", "FALSE", "AP"}
      [] f.op \in {"LAND", "LOR", "LUNTIL", "LDUNTIL"} ->
            is_positive_normal_form(f.l) /\ is_positive_normal_form(f.r)
      [] OTHER -> TRUE

\* The construction of an ATA formula has raised the error of init.
RECURSIVE raises_not_in_pnf(_)
raises_not_in_pnf(formula) ==
    CASE formula = NotInPNF -> TRUE
      [] formula.f = "RESET" -> raises_not_in_pnf(formula.sub)
      [] formula.f \in {"AND", "OR"} ->
            raises_not_in_pnf(formula.l) \/ raises_not_in_pnf(formula.r)
      [] OTHER -> FALSE

translate_raises_not_in_pnf(result) ==
    result.error = "none" /\ \E t \in result.transitions : raises_not_in_pnf(t.formula)

\* The negations init meets: those not below an until or dual until.
RECURSIVE negation_met_by_init(_)
negation_met_by_init(f) ==
    CASE f.op = "LNEG" -> f.l.op \notin {"TRUE", "FALSE", "AP"}
      [] f.op \in {"LAND", "LOR"} -> negation_met_by_init(f.l) \/ negation_met_by_init(f.r)
      [] OTHER -> FALSE

\* C21 (as stated): translate fails with the 'not in positive normal form'
\* error when its input formula is not in positive normal form.  Stated for
\* the calls that read a symbol and pass the test for l0.
C21_NonPNFInputRaises ==
    (/\ translation.result # NotCalled
     /\ ~is_positive_normal_form(translation.input_formula)
     /\ effective_alphabet(translation) # {}
     /\ "l0" \notin effective_alphabet(translation))
        => translate_raises_not_in_pnf(translation.result)

\* C21 (amended): translate never fails with the 'not in positive normal
\* form' error, because it converts its input to positive normal form before
\* it calls init; init itself, applied to the formula as passed in, raises
\* the error exactly when it meets a negation of something else than TRUE,
\* FALSE or an atomic proposition outside the operands of an until or dual
\* until.
C21_TranslateNormalisesFirst ==
    translation.result # NotCalled =>
        /\ translation.result.error \in {"none", "invalid_argument"}
        /\ ~translate_raises_not_in_pnf(translation.result)
        /\ \A a \in {"a", "b"}, first \in BOOLEAN :
              raises_not_in_pnf(init(translation.input_formula, a, first))
                 <=> negation_met_by_init(translation.input_formula)

\* translate has returned an automaton with transitions for a formula that
\* is not in positive normal form and on which init raises.
C21_Witness ==
    /\ translated
    /\ translation.result.transitions # {}
    /\ ~is_positive_normal_form(translation.input_formula)
    /\ raises_not_in_pnf(init(translation.input_formula, "a", TRUE))

\* C23: translate(phi) and translate(PNF(phi)) return the same automaton for
\* every alphabet: the same alphabet, initial location, accepting locations,
\* sink and transitions (and the same error for an alphabet with l0).
C23_SameAsTranslatingPNF ==
    translation.result # NotCalled =>
        translation.result = translate(to_positive_normal_form(translation.input_formula),
                                       translation.alphabet)

\* An automaton with accepting locations and transitions, returned for a
\* formula that differs from its positive normal form.
C23_Witness ==
    /\ translated
    /\ to_positive_normal_form(translation.input_formula) # translation.input_formula
    /\ translation.result.final_locations # {}
    /\ \E t \in translation.result.transitions : t.source.op = "LUNTIL"

(***************************************************************************)
(* Calls of the functions outside the search.  The arguments of a call are *)
(* drawn from bounded sets; one action per function applies it.            *)
(***************************************************************************)
\* The greatest constant of the intervals and the greatest K of the calls.
MaxConstant == 2

BoundTypes == {"WEAK", "STRICT", "INFTY"}

Durations ==
    {TimeInterval(lower, lowerBoundType, upper, upperBoundType) :
        lower \in 0..MaxConstant, lowerBoundType \in BoundTypes,
        upper \in 0..MaxConstant, upperBoundType \in BoundTypes}

\* Clock values up to beyond the greatest constant, integral and not.
ClockValues == {Time(ip, fr) : ip \in 0..(MaxConstant + 1), fr \in 0..1}

ContainsCalls ==
    {[function |-> "create_contains", duration |-> duration,
      returned |-> {}, contains |-> NotCalled, negated_contains |-> NotCalled] :
        duration \in Durations}

call_create_contains ==
    /\ call.function = "create_contains"
    /\ "create_contains" \notin call.returned
    /\ call' = [call EXCEPT !.contains = create_contains(call.duration),
                             !.returned = @ \cup {"create_contains"}]
    /\ UNCHANGED <<translation, problem, incremental_labeling, terminate_early,
                   multi_threaded, tree, queue, running, cost_counter, labeled>>

call_create_negated_contains ==
    /\ call.function = "create_contains"
    /\ "create_negated_contains" \notin call.returned
    /\ call' = [call EXCEPT !.negated_contains = create_negated_contains(call.duration),
                             !.returned = @ \cup {"create_negated_contains"}]
    /\ UNCHANGED <<translation, problem, incremental_labeling, terminate_early,
                   multi_threaded, tree, queue, running, cost_counter, labeled>>

\* An ATA formula is satisfied at a clock value: it has a model.
is_satisfied_at(formula, v) == get_minimal_models(formula, v) # {}

\* The functions of the call that have returned.
has_returned(functions) == functions \subseteq call.returned

both_created == has_returned({"create_contains", "create_negated_contains"})

\* C22: for every time interval I and every clock value v exactly one of
\* create_contains(I) and create_negated_contains(I) is satisfied by v; a
\* bound of type INFTY, and no other, contributes TRUE to contains and FALSE
\* to the negation.
C22_ContainsAndNegationComplementary ==
    both_created =>
        /\ \A v \in ClockValues :
              is_satisfied_at(call.contains, v) # is_satisfied_at(call.negated_contains, v)
        /\ call.contains.f = "AND" /\ call.negated_contains.f = "OR"
        /\ call.contains.l = TrueFormula <=> call.duration.lowerBoundType = "INFTY"
        /\ call.contains.r = TrueFormula <=> call.duration.upperBoundType = "INFTY"
        /\ call.negated_contains.l = FalseFormula <=> call.duration.lowerBoundType = "INFTY"
        /\ call.negated_contains.r = FalseFormula <=> call.duration.upperBoundType = "INFTY"

\* Both formulas were created for an interval with a weak and a strict bound
\* that some clock values are in and others are not.
C22_Witness ==
    /\ both_created
    /\ call.duration.lowerBoundType = "WEAK"
    /\ call.duration.upperBoundType = "STRICT"
    /\ \E v \in ClockValues : is_satisfied_at(call.contains, v)
    /\ \E v \in ClockValues : is_satisfied_at(call.negated_contains, v) /\ v.ip < call.duration.lower
    /\ \E v \in ClockValues : is_satisfied_at(call.negated_contains, v) /\ v.ip >= call.duration.upper

RegionIndexCalls ==
    {[function |-> "getRegionIndex", v |-> v, K |-> K, returned |-> {},
      region_index |-> NotCalled] :
        v \in ClockValues, K \in 0..MaxConstant}

call_getRegionIndex ==
    /\ call.function = "getRegionIndex"
    /\ "getRegionIndex" \notin call.returned
    /\ call' = [call EXCEPT !.region_index = getRegionIndex(call.v, call.K),
                             !.returned = @ \cup {"getRegionIndex"}]
    /\ UNCHANGED <<translation, problem, incremental_labeling, terminate_early,
                   multi_threaded, tree, queue, running, cost_counter, labeled>>

\* The words is_valid_canonical_word accepts: not empty, no empty partition,
\* no partition with even and odd region indexes, only the first partition
\* with even region indexes, no region index beyond 2K+1.
is_valid_canonical_word(word, K) ==
    /\ word # <<>>
    /\ \A i \in DOMAIN word :
          /\ word[i] # {}
          /\ \A s1, s2 \in word[i] : s1.region_index % 2 = s2.region_index % 2
          /\ \A s1 \in word[i] : s1.region_index <= 2 * K + 1
          /\ i > 1 => \A s1 \in word[i] : s1.region_index % 2 = 1

\* Clock values with three different fractional parts.
ConfigurationValues == {Time(ip, fr) : ip \in 0..(MaxConstant + 1), fr \in 0..2}

\* Configurations of a plant with one or two clocks and of an ATA with at
\* most one active location.
TAConfigurations ==
    {TAConfiguration("s", [c \in {"c1"} |-> v]) : v \in ConfigurationValues}
    \cup {TAConfiguration("s", [c \in {"c1", "c2"} |-> IF c = "c1" THEN v1 ELSE v2]) :
             v1 \in ConfigurationValues, v2 \in ConfigurationValues}

\* The specification of the calls: its until is the active ATA location.
CallSpecification == MTLUntil(MTLTrue, AP("b"), Unbounded)

ATAConfigurations == {{}} \cup {{State(CallSpecification, v)} : v \in ConfigurationValues}

\* A plant over the clocks of the calls that can always do a, with the ATA
\* of the specification.
CallProblem(K) ==
    Problem("call",
            TimedAutomaton({"a"}, "s", {"s"}, {"c1", "c2"}, {TATransition("s", "a", "s", {}, {})}),
            CallSpecification, {"a"}, {"a"}, {}, K, <<"s">>, <<"c1", "c2">>)

CanonicalWordCalls ==
    {[function |-> "get_canonical_word", ta_configuration |-> ta_configuration,
      ata_configuration |-> ata_configuration, K |-> K, returned |-> {},
      word |-> NotCalled, candidate |-> NotCalled, word_of_candidate |-> NotCalled,
      time_successors |-> NotCalled, children |-> NotCalled] :
        ta_configuration \in TAConfigurations, ata_configuration \in ATAConfigurations,
        K \in 1..MaxConstant}

call_get_canonical_word ==
    /\ call.function = "get_canonical_word"
    /\ call.returned = {}
    /\ call' = [call EXCEPT !.word = get_canonical_word(call.ta_configuration,
                                                        call.ata_configuration, call.K),
                             !.returned = {"get_canonical_word"}]
    /\ UNCHANGED <<translation, problem, incremental_labeling, terminate_early,
                   multi_threaded, tree, queue, running, cost_counter, labeled>>

call_get_candidate ==
    /\ call.function = "get_canonical_word"
    /\ call.returned = {"get_canonical_word"}
    /\ call' = [call EXCEPT !.candidate = get_candidate(call.word),
                             !.returned = @ \cup {"get_candidate"}]
    /\ UNCHANGED <<translation, problem, incremental_labeling, terminate_early,
                   multi_threaded, tree, queue, running, cost_counter, labeled>>

call_get_canonical_word_of_candidate ==
    /\ call.function = "get_canonical_word"
    /\ call.returned = {"get_canonical_word", "get_candidate"}
    /\ call' = [call EXCEPT !.word_of_candidate =
                               get_canonical_word(call.candidate[1], call.candidate[2], call.K),
                             !.returned = @ \cup {"get_canonical_word of the candidate"}]
    /\ UNCHANGED <<translation, problem, incremental_labeling, terminate_early,
                   multi_threaded, tree, queue, running, cost_counter, labeled>>

\* The time successors of the word, as expand_node computes them for the
\* words of a node.
call_get_time_successors ==
    /\ call.function = "get_canonical_word"
    /\ call.returned = {"get_canonical_word", "get_candidate",
                        "get_canonical_word of the candidate"}
    /\ is_valid_canonical_word(call.word, call.K)
    /\ call' = [call EXCEPT !.time_successors = get_time_successors(call.word, call.K),
                             !.returned = @ \cup {"get_time_successors"}]
    /\ UNCHANGED <<translation, problem, incremental_labeling, terminate_early,
                   multi_threaded, tree, queue, running, cost_counter, labeled>>

\* The child nodes expand_node creates for a node with the word.
call_create_children ==
    /\ call.function = "get_canonical_word"
    /\ "get_time_successors" \in call.returned
    /\ "create_children" \notin call.returned
    /\ call' = [call EXCEPT !.children = create_children(CallProblem(call.K),
                                                          Node({call.word}, {})),
                             !.returned = @ \cup {"create_children"}]
    /\ UNCHANGED <<translation, problem, incremental_labeling, terminate_early,
                   multi_threaded, tree, queue, running, cost_counter, labeled>>

\* The greatest region index of the words is_valid_canonical_word is called on.
MaxValidatedIndex == 2

InvalidCanonicalWordException == "InvalidCanonicalWordException"

\* is_valid_canonical_word that returns false for a word that is not valid.
is_valid_canonical_word_or_false(word) ==
    IF word = <<>> THEN "false"
    ELSE IF \E i \in DOMAIN word : word[i] = {} THEN "false"
    ELSE IF \E i \in DOMAIN word :
               \E s1, s2 \in word[i] : s1.region_index % 2 # s2.region_index % 2
    THEN "false"
    ELSE IF \E i \in DOMAIN word : i > 1 /\ \E s1 \in word[i] : s1.region_index % 2 = 0
    THEN "false"
    ELSE "true"

\* is_valid_canonical_word(word): true, or the exception it throws; the
\* checks are made one after the other.
is_valid_canonical_word_result(word) ==
    IF word = <<>> THEN InvalidCanonicalWordException
    ELSE IF \E i \in DOMAIN word : word[i] = {} THEN InvalidCanonicalWordException
    ELSE IF \E i \in DOMAIN word :
               \E s1, s2 \in word[i] : s1.region_index % 2 # s2.region_index % 2
    THEN InvalidCanonicalWordException
    ELSE IF \E i \in DOMAIN word : i > 1 /\ \E s1 \in word[i] : s1.region_index % 2 = 0
    THEN InvalidCanonicalWordException
    ELSE "true"

\* The partitions of the words of the calls: at most two region states of
\* the clocks c0 and c1.
ValidatedPartitions ==
    {partition \in SUBSET {TARegionState("s0", clock, region_index) :
                              clock \in {"c0", "c1"}, region_index \in 0..MaxValidatedIndex} :
        Cardinality(partition) <= 2}

ValidationCalls ==
    {[function |-> "is_valid_canonical_word", word |-> word, returned |-> {},
      valid |-> "not_called"] :
        word \in {<<>>} \cup {<<partition>> : partition \in ValidatedPartitions}
                 \cup {<<first, second>> : first, second \in ValidatedPartitions}}

call_is_valid_canonical_word ==
    /\ call.function = "is_valid_canonical_word"
    /\ "is_valid_canonical_word" \notin call.returned
    /\ call' = [call EXCEPT !.valid = is_valid_canonical_word_result(call.word),
                             !.returned = @ \cup {"is_valid_canonical_word"}]
    /\ UNCHANGED <<translation, problem, incremental_labeling, terminate_early,
                   multi_threaded, tree, queue, running, cost_counter, labeled>>

CallInit ==
    /\ call \in ContainsCalls \cup RegionIndexCalls \cup CanonicalWordCalls \cup ValidationCalls
    /\ translation = NoTranslation
    /\ problem = 1
    /\ incremental_labeling = FALSE
    /\ terminate_early = FALSE
    /\ multi_threaded = FALSE
    /\ tree = <<>>
    /\ queue = {}
    /\ running = {}
    /\ cost_counter = 0
    /\ labeled = FALSE

CallNext ==
    \/ call_create_contains
    \/ call_create_negated_contains
    \/ call_getRegionIndex
    \/ call_get_canonical_word
    \/ call_get_candidate
    \/ call_get_canonical_word_of_candidate
    \/ call_get_time_successors
    \/ call_create_children
    \/ call_is_valid_canonical_word

CallSpec == CallInit /\ [][CallNext]_vars

\* C24: for every TA configuration, ATA configuration and K the word that
\* get_canonical_word returns is not empty, has no empty partition, has only
\* its first partition with even region indexes, has no partition with even
\* and odd region indexes, and has no region index beyond 2K+1.
C24_CanonicalWordIsValid ==
    has_returned({"get_canonical_word"}) => is_valid_canonical_word(call.word, call.K)

\* The values of the candidate for the symbols of the partition i.
candidate_values(candidate, partition) ==
    {candidate[1].clock_valuations[s.clock] : s \in {u \in partition : is_ta_region_state(u)}}
    \cup {s.clock_valuation : s \in {u \in candidate[2] : \E r \in partition :
                                        ~is_ta_region_state(r) /\ r.formula = u.location}}

\* C25: for every TA/ATA configuration c and K the canonical word of
\* get_candidate(get_canonical_word(c, K)) is get_canonical_word(c, K), and
\* the candidate has equal fractional parts inside a partition and strictly
\* increasing fractional parts from partition to partition.
C25_CandidateRoundTrip ==
    has_returned({"get_canonical_word of the candidate"}) =>
        /\ call.word_of_candidate = call.word
        /\ \A i \in DOMAIN call.word :
              \A v1, v2 \in candidate_values(call.candidate, call.word[i]) : v1.fr = v2.fr
        /\ \A i, j \in DOMAIN call.word :
              i < j => \A v1 \in candidate_values(call.candidate, call.word[i]),
                          v2 \in candidate_values(call.candidate, call.word[j]) : v1.fr < v2.fr

\* v is at most w, for values of one configuration.
time_leq(v, w) == v.ip < w.ip \/ (v.ip = w.ip /\ v.fr <= w.fr)

region_index_as_specified(v, K, region_index) ==
    /\ (v.fr = 0 /\ v.ip <= K) => region_index = 2 * v.ip
    /\ (v.fr # 0 /\ v.ip < K) => region_index = 2 * v.ip + 1
    /\ (v.ip > K \/ (v.ip = K /\ v.fr # 0)) => region_index = 2 * K + 1
    /\ region_index <= 2 * K + 1
    /\ \A w \in ClockValues : time_leq(v, w) => region_index <= getRegionIndex(w, K)
    /\ \A w \in ClockValues : time_leq(w, v) => getRegionIndex(w, K) <= region_index

\* The region increments attached to the child nodes of the call.
increments_of_children ==
    UNION {{action[1] : action \in call.children[i].incoming_actions} :
              i \in DOMAIN call.children}

region_indexes_of_children ==
    UNION {UNION {{symbol[2].region_index : symbol \in word_symbols(word)} :
                     word \in call.children[i].words} : i \in DOMAIN call.children}

\* C26 (as stated): the region index of a clock value v for the maximal
\* constant K is 2*floor(v) for integral v <= K, 2*floor(v)+1 for non-integral
\* v below K and 2K+1 for every v greater than K; it is monotonically
\* non-decreasing in v and never exceeds 2K+1, and every region increment
\* attached to a child node lies in 0..2K+1.
C26_IncrementsWithinRegions ==
    /\ has_returned({"getRegionIndex"})
          => region_index_as_specified(call.v, call.K, call.region_index)
    /\ has_returned({"create_children"})
          => increments_of_children \subseteq 0..(2 * call.K + 1)

\* C26 (amended): the region index is as stated, and no region index of a
\* word of a child node exceeds 2K+1; the region increment attached to a
\* child node is the position of a time successor in get_time_successors of
\* the word, which is within 0..2K+1 for a word of at most two partitions and
\* can be greater for a word of three partitions.
C26_RegionIndex ==
    /\ has_returned({"getRegionIndex"})
          => region_index_as_specified(call.v, call.K, call.region_index)
    /\ has_returned({"create_children"})
          => /\ increments_of_children \subseteq 0..(Len(call.time_successors) - 1)
             /\ \A region_index \in region_indexes_of_children : region_index <= 2 * call.K + 1
             /\ Len(call.word) <= 2 => increments_of_children \subseteq 0..(2 * call.K + 1)

\* A node whose word has three partitions got a child with a region
\* increment beyond 2K+1, and a region index of a child's word is 2K+1.
C26_Witness ==
    /\ has_returned({"create_children"})
    /\ Len(call.word) = 3
    /\ \E d \in increments_of_children : d > 2 * call.K + 1
    /\ 2 * call.K + 1 \in region_indexes_of_children

is_saturated(word, K) == \A i \in DOMAIN word : is_maxed(word[i], 2 * K + 1)

get_clock_constraints_from_region_index(region_index) ==
    IF region_index % 2 = 0
    THEN {ClockConstraint("equal_to", region_index \div 2)}
    ELSE {ClockConstraint("greater", region_index \div 2),
          ClockConstraint("less", region_index \div 2 + 1)}

RECURSIVE get_nth_time_successor(_, _, _)
get_nth_time_successor(word, n, K) ==
    IF n = 0 THEN word ELSE get_nth_time_successor(get_time_successor(word, K), n - 1, K)

\* The multimap clock -> constraint of a word of plant region states.
get_constraints_from_time_successor(word) ==
    UNION {UNION {{<<state.clock, constraint>> :
                      constraint \in get_clock_constraints_from_region_index(state.region_index)} :
                     state \in word[i]} : i \in DOMAIN word}

\* TimedAutomaton{alphabet, initial_location, final_locations}, with its
\* set of locations.
Controller(alphabet, initial_location, final_locations) ==
    [alphabet |-> alphabet,
     locations |-> {initial_location} \cup final_locations,
     initial_location |-> initial_location,
     final_locations |-> final_locations,
     clocks |-> {},
     transitions |-> {}]

add_location(controller, location) ==
    [controller EXCEPT !.locations = @ \cup {location}]

add_final_location(controller, location) ==
    [controller EXCEPT !.final_locations = @ \cup {location}]

\* std::invalid_argument, thrown by add_node_to_controller.
InvalidArgument == [raised |-> "invalid_argument"]

has_raised(result) == "raised" \in DOMAIN result

\* reg_a(*std::begin(node->words)); the words of a node are one class of
\* reg_a (create_children), so every word of the node has this projection.
reg_a_of_first_word(words) == CHOOSE projection \in {reg_a(word) : word \in words} : TRUE

\* The constraints of a transition that ignore the region increment.
constraints_of_action_without_increment(words, region_increment, K) ==
    get_constraints_from_time_successor(reg_a_of_first_word(words))

constraints_of_action(words, region_increment, K) ==
    get_constraints_from_time_successor(
        get_nth_time_successor(reg_a_of_first_word(words), region_increment, K))

\* The loop over successor->incoming_actions: add_action, add_clock for every
\* constraint and add_transition, with an empty set of resets.
add_incoming_actions(t, node, successor, K, controller) ==
    LET actions == t[successor].incoming_actions
    IN  [controller EXCEPT
            !.alphabet = @ \cup {action[2] : action \in actions},
            !.clocks = @ \cup UNION {{constraint[1] :
                                        constraint \in constraints_of_action(t[node].words, action[1], K)} :
                                     action \in actions},
            !.transitions = @ \cup
                {TATransition(t[node].words, action[2], t[successor].words,
                              constraints_of_action(t[node].words, action[1], K), {}) :
                    action \in actions}]

\* No successor is skipped.
is_skipped_never(t, successor) == FALSE

\* if (successor->label != NodeLabel::TOP) continue;
is_skipped(t, successor) == t[successor].label # "TOP"

\* add_location and add_final_location of a successor.
add_successor_location(controller, location) ==
    add_final_location(add_location(controller, location), location)

RECURSIVE add_node_to_controller(_, _, _, _)
RECURSIVE add_successors(_, _, _, _, _)
\* The loop goes on after the walk of the i-th child unless that has thrown.
add_successors_after(t, node, K, walked, i) ==
    IF has_raised(walked) THEN walked ELSE add_successors(t, node, K, walked, i + 1)

\* The loop over node->children, from the i-th child on.
add_successors(t, node, K, controller, i) ==
    IF i > Len(children_of(t, node)) THEN controller
    ELSE IF is_skipped(t, Append(node, i)) THEN add_successors(t, node, K, controller, i + 1)
    ELSE add_successors_after(t, node, K,
             add_node_to_controller(t, Append(node, i), K,
                 add_incoming_actions(t, node, Append(node, i), K,
                     add_successor_location(controller, t[Append(node, i)].words))), i)

add_node_to_controller(t, node, K, controller) ==
    IF t[node].label # "TOP" THEN InvalidArgument
    ELSE add_successors(t, node, K, controller, 1)

create_controller(t, K) ==
    add_node_to_controller(t, Root, K, Controller({}, t[Root].words, {}))

\* The nodes add_node_to_controller is called on: the nodes reached from the
\* root through nodes labeled TOP only.
walked_nodes(t) ==
    {node \in DOMAIN t : \A i \in 0..Len(node) : t[SubSeq(node, 1, i)].label = "TOP"}

ControllerCall(t, K) ==
    [function |-> "create_controller", returned |-> {"create_controller"},
     tree |-> t, K |-> K, controller |-> create_controller(t, K)]

\* create_controller(search.get_root(), K) after the search.
call_create_controller ==
    /\ call = NoCall
    /\ search_done
    /\ call' = ControllerCall(tree, Problems[problem].K)
    /\ UNCHANGED <<translation, problem, incremental_labeling, terminate_early, multi_threaded,
                   tree, queue, running, cost_counter, labeled>>

ControllerNext == step \/ worker_take \/ worker_run \/ call_label \/ call_create_controller

ControllerSpec == Init /\ [][ControllerNext]_vars

controller_created == has_returned({"create_controller"}) /\ ~has_raised(call.controller)

top_children(t, node) ==
    {c \in DOMAIN t : Len(c) = Len(node) + 1 /\ parent_of(c) = node /\ t[c].label = "TOP"}

\* C28: create_controller raises an invalid-argument error and returns no
\* controller when the root is not labeled TOP; for a root labeled TOP it
\* never raises, because a child that is not labeled TOP is skipped together
\* with its subtree: the locations of the controller are the words of the
\* nodes reached from the root through nodes labeled TOP.
C28_RaisesIffRootNotTop ==
    has_returned({"create_controller"}) =>
        /\ has_raised(call.controller) <=> call.tree[Root].label # "TOP"
        /\ has_raised(call.controller) => call.controller = InvalidArgument
        /\ ~has_raised(call.controller) =>
              /\ call.controller.locations
                    = {call.tree[node].words : node \in walked_nodes(call.tree)}
              /\ call.controller.initial_location = call.tree[Root].words

\* A controller has been created for a root labeled TOP with a child that is
\* not labeled TOP and has children of its own.
C28_Witness ==
    /\ controller_created
    /\ \E node \in DOMAIN call.tree :
          /\ Len(node) = 1
          /\ call.tree[node].label # "TOP"
          /\ has_children(call.tree, node)

\* C29: the accepting locations of the controller returned by
\* create_controller are the word sets of all nodes labeled TOP of the walked
\* subtree, the word set of the root included.
C29_AcceptingLocationsOfAllTopNodes ==
    controller_created =>
        call.controller.final_locations
            = {call.tree[node].words : node \in walked_nodes(call.tree)}

\* The d-th word of get_time_successors, the last one for a greater d.
time_successor_at(word, d, K) ==
    LET successors == get_time_successors(word, K)
    IN  successors[IF d + 1 <= Len(successors) THEN d + 1 ELSE Len(successors)][2]

\* The clock constraints of the regions of a word of plant region states.
constraints_of_regions(word) ==
    LET states == UNION {word[i] : i \in DOMAIN word}
    IN  {<<state.clock, ClockConstraint("equal_to", state.region_index \div 2)>> :
            state \in {u \in states : u.region_index % 2 = 0}}
        \cup {<<state.clock, ClockConstraint("greater", state.region_index \div 2)>> :
                state \in {u \in states : u.region_index % 2 = 1}}
        \cup {<<state.clock, ClockConstraint("less", state.region_index \div 2 + 1)>> :
                state \in {u \in states : u.region_index % 2 = 1}}

transitions_of_walk(t, K) ==
    UNION {UNION {{TATransition(t[node].words, action[2], t[c].words,
                                constraints_of_regions(
                                    time_successor_at(reg_a_of_first_word(t[node].words),
                                                      action[1], K)),
                                {}) : action \in t[c].incoming_actions} :
                     c \in top_children(t, node)} : node \in walked_nodes(t)}

\* C30: for a root labeled TOP the controller contains, for every walked
\* node n, every child c of n labeled TOP and every (region increment d,
\* action a) of c.incoming_actions, a transition from n.words to c.words on a
\* whose guard is the set of clock constraints of the d-th time successor of
\* reg_a of the first word of n, and no other transition; every transition
\* has an empty set of resets and its action is in the controller's alphabet.
C30_TransitionsOfController ==
    controller_created =>
        /\ call.controller.transitions = transitions_of_walk(call.tree, call.K)
        /\ \A node \in walked_nodes(call.tree) :
              Cardinality({reg_a(word) : word \in call.tree[node].words}) = 1
        /\ \A transition \in call.controller.transitions :
              /\ transition.clock_resets = {}
              /\ transition.symbol \in call.controller.alphabet
              /\ {constraint[1] : constraint \in transition.clock_constraints}
                    \subseteq call.controller.clocks
        /\ call.controller.alphabet
              = {transition.symbol : transition \in call.controller.transitions}

\* A controller with a transition out of a node below the root, and with a
\* transition for a region increment of at least 2 whose guard is not the
\* one of the node's own regions.
C30_Witness ==
    /\ controller_created
    /\ \E node \in walked_nodes(call.tree) : Len(node) >= 1 /\ top_children(call.tree, node) # {}
    /\ \E node \in walked_nodes(call.tree) : \E c \in top_children(call.tree, node) :
          \E action \in call.tree[c].incoming_actions :
             /\ action[1] >= 2
             /\ constraints_of_action(call.tree[node].words, action[1], call.K)
                   # constraints_of_action(call.tree[node].words, 0, call.K)

(***************************************************************************)
(* Behaviour of the search as a whole.                                     *)
(***************************************************************************)
is_decided(t, node) == t[node].label \in {"TOP", "BOTTOM"}

label_is_kept(node) ==
    /\ is_decided(tree, node) =>
          node \in DOMAIN tree' /\ tree'[node].label = tree[node].label
    /\ (node \in DOMAIN tree' /\ tree'[node].label = "CANCELED")
          => tree[node].label \in {"UNLABELED", "CANCELED"}

\* C31: labels only become more definite: a node labeled TOP or BOTTOM keeps
\* its label in every later step of the search, whatever label_propagate is
\* called for other children, and only a node that is still UNLABELED is ever
\* canceled.
C31_LabelsOnlyMoreDefinite == [][\A node \in DOMAIN tree : label_is_kept(node)]_vars

\* The search is over, and a node that was labeled from its children while
\* the tree was built has a labeled child, a canceled child, and a labeled
\* parent.
C31_Witness ==
    /\ pool_idle(queue, running)
    /\ terminate_early
    /\ \E node \in DOMAIN tree :
          /\ node # Root
          /\ is_decided(tree, node)
          /\ is_decided(tree, parent_of(node))
          /\ \E c \in DOMAIN tree : parent_of(c) = node /\ c # node /\ is_decided(tree, c)
          /\ \E c \in DOMAIN tree : parent_of(c) = node /\ c # node /\ tree[c].label = "CANCELED"

\* The jobs whose expand_node is run in the step.
jobs_run ==
    IF multi_threaded THEN running \ running' ELSE queue \ queue'

is_expanded_or_labeled(t, node) == t[node].is_expanded \/ t[node].label # "UNLABELED"

\* C32: expand_node on a node that is already expanded or whose label is not
\* UNLABELED (a CANCELED node that is still in the queue included) changes
\* nothing: the state, label, label_reason, children and is_expanded flag of
\* every node are as before, and no job is enqueued.
C32_ExpandedOrLabeledIsSkipped ==
    [][\A job \in jobs_run :
          is_expanded_or_labeled(tree, job.node) =>
             /\ tree' = tree
             /\ queue' \subseteq queue
             /\ cost_counter' = cost_counter]_vars

\* The job of a node that was canceled while it was in the queue has been
\* run: the node is neither expanded nor in the queue, and has no children.
C32_Witness ==
    \E node \in DOMAIN tree :
       /\ tree[node].label = "CANCELED"
       /\ ~tree[node].is_expanded
       /\ tree[node].state = "UNKNOWN"
       /\ tree[node].label_reason = "UNKNOWN"
       /\ ~has_children(tree, node)
       /\ node \notin nodes_of(queue) \cup nodes_of(running)

\* The conditions of the early exits of expand_node for a node of the tree.
exit_bad(node) == is_bad_node(Problems[problem], tree[node])

exit_no_ata_successor(node) == ~has_satisfiable_ata_configuration(tree[node])

exit_dominated(node) == dominates_ancestor(tree, node)

\* C33 (as stated): the early exits of expand_node are mutually exclusive: no
\* node of the tree is at the same time bad and without satisfiable ATA
\* configuration, or bad and dominated by an ancestor, or without satisfiable
\* ATA configuration and dominated by an ancestor.
C33_ExitsMutuallyExclusive ==
    \A node \in DOMAIN tree :
       /\ ~(exit_bad(node) /\ exit_no_ata_successor(node))
       /\ ~(exit_bad(node) /\ exit_dominated(node))
       /\ ~(exit_no_ata_successor(node) /\ exit_dominated(node))

\* C33 (amended): no node of the tree is bad and also without satisfiable
\* ATA configuration or dominated by an ancestor.  A node can be without
\* satisfiable ATA configuration and dominated at once; both exits give it
\* the state GOOD, and the order of the checks decides the label reason only,
\* which is NO_ATA_SUCCESSOR.
C33_BadExcludesOtherExits ==
    \A node \in DOMAIN tree :
       /\ ~(exit_bad(node) /\ exit_no_ata_successor(node))
       /\ ~(exit_bad(node) /\ exit_dominated(node))
       /\ tree[node].is_expanded =>
             /\ exit_bad(node) <=> tree[node].state = "BAD"
             /\ (exit_no_ata_successor(node) \/ exit_dominated(node))
                   <=> tree[node].state = "GOOD"
             /\ exit_no_ata_successor(node)
                   <=> tree[node].label_reason = "NO_ATA_SUCCESSOR"
             /\ (exit_dominated(node) /\ ~exit_no_ata_successor(node))
                   <=> tree[node].label_reason = "MONOTONIC_DOMINATION"

\* A node without satisfiable ATA configuration that an ancestor dominates
\* has been expanded.
C33_Witness ==
    \E node \in DOMAIN tree :
       /\ exit_no_ata_successor(node)
       /\ exit_dominated(node)
       /\ tree[node].is_expanded
       /\ tree[node].state = "GOOD"

\* The nodes that get their label TOP or BOTTOM in the step.
newly_labeled ==
    {node \in DOMAIN tree : tree[node].label = "UNLABELED" /\ is_decided(tree', node)}

ancestor_at(node, i) == SubSeq(node, 1, i)

\* The label the labeled children of the node determine in the tree.
determined_label(t, node) ==
    propagate_decision(t, node, Problems[problem].controller_actions,
                       Problems[problem].environment_actions).label

\* label_propagate, called for the leaf, has labeled the ancestors of the
\* leaf from the one at depth k on, each with the label its children
\* determine, and has stopped below the ancestor at depth k - 1, whose label
\* is not determined.
propagated_from(leaf, k) ==
    /\ newly_labeled = {ancestor_at(leaf, i) : i \in k..Len(leaf)}
    /\ \A i \in k..(Len(leaf) - 1) :
          determined_label(tree', ancestor_at(leaf, i)) = tree'[ancestor_at(leaf, i)].label
    /\ k > 0 =>
          /\ tree[ancestor_at(leaf, k - 1)].label = "UNLABELED"
                => determined_label(tree', ancestor_at(leaf, k - 1)) = "UNLABELED"
          /\ \A j \in 0..(k - 1) :
                tree'[ancestor_at(leaf, j)].label = tree[ancestor_at(leaf, j)].label

\* C34: label_propagate labels the ancestors of a node bottom-up: when it
\* labels the parent it goes on with the parent's parent, and it stops at the
\* first ancestor whose label its labeled children do not determine yet; this
\* ancestor and every node above it keep the label they have.
C34_PropagateBottomUp ==
    [][newly_labeled # {} =>
          \E leaf \in newly_labeled \cap unlabeled_leaves :
             \E k \in 0..Len(leaf) : propagated_from(leaf, k)]_vars

\* label_propagate has labeled an inner node below the root and stopped at
\* the root, whose label its children do not determine yet.
C34_Witness ==
    /\ tree[Root].label = "UNLABELED"
    /\ determined_label(tree, Root) = "UNLABELED"
    /\ \E node \in DOMAIN tree :
          /\ Len(node) = 1
          /\ has_children(tree, node)
          /\ is_decided(tree, node)

\* The word has no ATA region state.
has_no_ata_state(word) == \A i \in DOMAIN word : \A symbol \in word[i] : is_ta_region_state(symbol)

\* The location of the plant in the word.
ta_location(word) ==
    CHOOSE location \in {symbol.location :
                            symbol \in {u \in UNION {word[i] : i \in DOMAIN word} :
                                           is_ta_region_state(u)}} : TRUE

accepting_without_ata_state(p, word) ==
    has_no_ata_state(word) /\ ta_location(word) \in p.ta.final_locations

\* C35: a canonical word without any ATA region state stands for the empty
\* ATA configuration, which is accepting because each of its active
\* locations (there is none) is accepting; a node with such a word whose TA
\* location is accepting is bad, and expand_node gives it the state BAD (and
\* the label BOTTOM with incremental labeling).
C35_EmptyConfigurationIsAccepting ==
    \A node \in DOMAIN tree : \A word \in tree[node].words :
       /\ has_no_ata_state(word) =>
             /\ get_candidate(word)[2] = {}
             /\ ata_is_accepting_configuration(Problems[problem].ata, get_candidate(word)[2])
       /\ accepting_without_ata_state(Problems[problem], word) =>
             /\ is_bad_node(Problems[problem], tree[node])
             /\ tree[node].is_expanded =>
                   /\ tree[node].state = "BAD"
                   /\ incremental_labeling => tree[node].label = "BOTTOM"

\* A node with a word without ATA region state and an accepting location of
\* the plant has been expanded.
C35_Witness ==
    \E node \in DOMAIN tree :
       /\ \E word \in tree[node].words : accepting_without_ata_state(Problems[problem], word)
       /\ tree[node].is_expanded
       /\ tree[node].state = "BAD"

\* The word is not empty, has no empty group, no group with even and odd
\* region indexes, and even region indexes in its first group only.
is_well_formed(word) ==
    /\ Len(word) > 0
    /\ \A i \in DOMAIN word : Cardinality(word[i]) > 0
    /\ \A i \in DOMAIN word :
          \/ \A symbol \in word[i] : symbol.region_index % 2 = 0
          \/ \A symbol \in word[i] : symbol.region_index % 2 = 1
    /\ \A i \in DOMAIN word : \A symbol \in word[i] : symbol.region_index % 2 = 0 => i = 1

\* C36: is_valid_canonical_word returns true iff the word is non-empty, has
\* no empty group, no group that mixes even and odd region indexes, and even
\* region indexes in its first group only; in every other case it raises
\* InvalidCanonicalWordException and never returns false.
C36_ValidOrException ==
    has_returned({"is_valid_canonical_word"}) =>
        /\ call.valid = "true" <=> is_well_formed(call.word)
        /\ ~is_well_formed(call.word) => call.valid = InvalidCanonicalWordException
        /\ call.valid # "false"

\* is_valid_canonical_word has raised the exception for a word of two groups
\* without a mixed group, whose second group has an even region index.
C36_Witness ==
    /\ has_returned({"is_valid_canonical_word"})
    /\ call.word = <<{TARegionState("s0", "c0", 0)}, {TARegionState("s0", "c1", 2)}>>
    /\ call.valid = InvalidCanonicalWordException

\* The root label of the single-threaded search with incremental labeling of
\* the problem, with or without early termination.
incremental_root_label(p, cancel) ==
    build_tree(p, TRUE, cancel, initial_tree(p), {Job(Root, -compute_cost(0))},
               compute_cost(0))[Root].label

\* C37: for the same TA, ATA, action partition and K, a search with
\* incremental labeling gives the root the same label with and without
\* terminate_early, whatever the order in which the jobs are run.
C37_EarlyTerminationKeepsRootLabel ==
    (search_done /\ incremental_labeling) =>
        /\ tree[Root].label = incremental_root_label(Problems[problem], FALSE)
        /\ tree[Root].label = incremental_root_label(Problems[problem], TRUE)

\* A search with incremental labeling and early termination is over; nodes
\* have been canceled and the root is labeled.
C37_Witness ==
    /\ search_done
    /\ incremental_labeling
    /\ terminate_early
    /\ is_decided(tree, Root)
    /\ \E node \in DOMAIN tree : tree[node].label = "CANCELED"
    /\ \E node \in DOMAIN tree : Len(node) >= 2

\* build_tree(false) without incremental labeling under the depth-first
\* heuristic, whose cost falls with each call: the job added last runs first.
RECURSIVE build_tree_depth_first(_, _, _, _)
build_tree_depth_first_step(p, q, counter, expanded) ==
    build_tree_depth_first(p, expanded.tree,
                           add_nodes_to_queue_without_negation(q, counter, expanded.enqueued),
                           counter + Len(expanded.enqueued))

build_tree_depth_first(p, t, q, counter) ==
    IF q = {} THEN t
    ELSE build_tree_depth_first_step(p, q \ {top(q)}, counter,
                                     expand_node(p, FALSE, FALSE, t, top(q).node))

\* The trees have the same nodes with the same children, and each node has
\* the same words, incoming actions and state.
same_built_tree(t1, t2) ==
    /\ DOMAIN t1 = DOMAIN t2
    /\ \A node \in DOMAIN t1 :
          /\ t1[node].words = t2[node].words
          /\ t1[node].incoming_actions = t2[node].incoming_actions
          /\ t1[node].state = t2[node].state

\* C38: without incremental labeling the tree at the end of build_tree is
\* the same - nodes, children, words, incoming actions, states - whatever the
\* interleaving of the workers, and it is the tree that the breadth-first
\* and the depth-first heuristic build in a single thread.
C38_BuiltTreeIsDeterministic ==
    (search_done /\ ~incremental_labeling) =>
        /\ same_built_tree(tree, built_tree(Problems[problem]))
        /\ same_built_tree(tree, build_tree_depth_first(Problems[problem],
                                                        initial_tree(Problems[problem]),
                                                        {Job(Root, compute_cost(0))},
                                                        compute_cost(0)))

\* A multi-threaded search without incremental labeling is over; its tree has
\* nodes below the children of the root, and nodes of each state.
C38_Witness ==
    /\ search_done
    /\ ~incremental_labeling
    /\ multi_threaded
    /\ \E node \in DOMAIN tree : Len(node) >= 2
    /\ \E n1, n2 \in DOMAIN tree :
          /\ tree[n1].state = "UNKNOWN" /\ n1 # Root
          /\ tree[n2].state \in {"GOOD", "BAD", "DEAD"}

\* A node has children only if it is expanded and its state is UNKNOWN.
children_only_if_expanded ==
    \A node \in DOMAIN tree :
       has_children(tree, node) => tree[node].is_expanded /\ tree[node].state = "UNKNOWN"

\* Nodes with the state GOOD, BAD or DEAD have no children.
decided_states_have_no_children ==
    \A node \in DOMAIN tree :
       tree[node].state \in {"GOOD", "BAD", "DEAD"} => ~has_children(tree, node)

\* The parent of every child is a node of the tree, the one whose child list
\* holds it.
parent_owns_child ==
    \A node \in DOMAIN tree \ {Root} :
       /\ parent_of(node) \in DOMAIN tree
       /\ \E i \in DOMAIN children_of(tree, parent_of(node)) :
             children_of(tree, parent_of(node))[i] = node

\* The state of a node changes only away from UNKNOWN.
state_changes_once ==
    \A node \in DOMAIN tree \cap DOMAIN tree' :
       tree'[node].state # tree[node].state => tree[node].state = "UNKNOWN"

\* C39: in every state of the search, between the steps of an expand_node
\* that runs on a worker as well: a node has children only if it is expanded
\* and its state is UNKNOWN; GOOD, BAD and DEAD nodes have no children; every
\* child's parent is the node that owns it; the state of a node changes at
\* most once, away from UNKNOWN.
C39_InvariantsBetweenSteps ==
    /\ [](children_only_if_expanded /\ decided_states_have_no_children
          /\ parent_owns_child)
    /\ [][state_changes_once]_vars

\* What holds of the claim between the steps: all but the is_expanded flag
\* of a node that has children.
C39_WithoutExpandedFlag ==
    /\ [](decided_states_have_no_children /\ parent_owns_child
          /\ \A node \in DOMAIN tree :
                has_children(tree, node) => tree[node].state = "UNKNOWN")
    /\ [][state_changes_once]_vars

\* A worker is between the creation of the children and the test for a
\* canceled node: the node has its children and is not expanded.
C39_ChildrenBeforeExpanded ==
    \E worker \in running :
       /\ worker.position = "computed"
       /\ has_children(tree, worker.node)
       /\ ~tree[worker.node].is_expanded

(***************************************************************************)
(* The search that runs on: build_tree(false) calls step() until it        *)
(* returns false, the workers of build_tree(true) run while there are      *)
(* jobs, and label() is called when build_tree has returned.               *)
(***************************************************************************)
\* The conditions under which step(), the run of a taken job and label() can
\* take place.
can_step == ~multi_threaded /\ ~labeled /\ queue # {}

can_run == multi_threaded /\ running # {}

can_label == queue = {} /\ running = {} /\ ~labeled /\ ~incremental_labeling

\* Weak fairness of each action, with the enabling condition of step,
\* worker_run and call_label written out.
FairSpec ==
    /\ Init /\ [][Next]_vars
    /\ WF_vars(worker_take)
    /\ ([]<>(~can_step) \/ []<><<step>>_vars)
    /\ ([]<>(~can_run) \/ []<><<worker_run>>_vars)
    /\ ([]<>(~can_label) \/ []<><<call_label>>_vars)

\* build_tree has returned and the tree is labeled: while it was built, or
\* by label().
search_complete == search_done /\ (incremental_labeling \/ labeled)

\* C40: the search terminates - the queue becomes empty and no job is
\* running - and once the tree is labeled, incrementally or by label(), the
\* label of the root is TOP or BOTTOM.
C40_SearchTerminates ==
    /\ <>search_complete
    /\ [](search_complete => tree[Root].label \in {"TOP", "BOTTOM"})

\* The search is over; there are branches that end in a bad node, in a node
\* without ATA successor or a dominated node, and in a dead node.
C40_Witness ==
    /\ search_complete
    /\ tree[Root].label \in {"TOP", "BOTTOM"}
    /\ \E node \in DOMAIN tree : tree[node].state = "BAD"
    /\ \E node \in DOMAIN tree : tree[node].state = "GOOD"
    /\ \E node \in DOMAIN tree : Len(node) >= 2

====
